---- MODULE Spec2Model ----
(***************************************************************************)
(* Raiders of the North Sea: the game engine of src/game (state.py,        *)
(* actions.py, rules.py, engine.py) as a state machine.                    *)
(*                                                                         *)
(* One GameState is held in the variable `state`, a record with the fields *)
(* of the GameState dataclass.  Python lists are sequences in list order   *)
(* (list.pop() takes the LAST element), Optional values are sets of at     *)
(* most one element or the string None.  random.shuffle is a               *)
(* nondeterministic choice of a permutation.                               *)
(***************************************************************************)
EXTENDS Integers, Sequences, FiniteSets, TLC

VARIABLES
    state,              \* GameEngine.state: the GameState record
    action_history_len, \* len(GameEngine.action_history)
    action_history_last,\* the action_type of GameEngine.action_history[-1], None when empty
    state_history_len,  \* len(GameEngine.state_history)
    state_history_last, \* GameEngine.state_history[-1], a deep copy of a GameState
    raised,             \* the exception the latest take_action call raised, None when it returned
    turns_ended,        \* history variable: the turn-ending actions executed so far
    replay              \* None, or a second GameEngine of the process, created with the
                        \* same names and seed, and the state of the generator of the
                        \* random module, which the process has only one of

vars == <<state, action_history_len, action_history_last, state_history_len,
          state_history_last, raised, turns_ended, replay>>

(***************************************************************************)
(* Bounds of the model.                                                    *)
(***************************************************************************)
NumPlayers == 2
MaxCalls == 4
MaxTurns == 8
MaxHiringCalls == 10
MaxSeed == 1
MaxExecuteCalls == 5
MaxResource == 2
MaxStrength == 31
MaxReplayCalls == 6
MaxCounted == 2

(***************************************************************************)
(* Constants of the program.                                               *)
(***************************************************************************)
HandLimit == 8
CrewLimit == 5
StartingSilver == 2
InitialDeal == 5
InitialDiscards == 2
VisibleOfferingSlots == 3

None == "None"
Players == 0 .. (NumPlayers - 1)
NoSuchPlayer == NumPlayers
NeutralPlayer == 0 - 1

WorkerColor == {"black", "grey", "white"}
ResourceNames == {"silver", "gold", "provisions", "iron", "livestock"}

(***************************************************************************)
(* The reference catalog.  The JSON files read by BoardDatabase and        *)
(* CardDatabase are data outside src/; the entries below follow the shape  *)
(* of the dataclasses of board.py and cards.py and the data model of the   *)
(* specification.  An absent worker_requirement is {}, a present one is    *)
(* {allowed colours}.                                                      *)
(***************************************************************************)
NoResources == [r \in {} |-> 0]

Buildings ==
    << [id |-> "gate_house", name |-> "Gate House", worker_slots |-> 2,
        action |-> [type |-> "draw_cards", amount |-> 6],
        worker_requirement |-> {}],
       [id |-> "town_hall", name |-> "Town Hall", worker_slots |-> 1,
        action |-> [type |-> "play_card_town_hall"],
        worker_requirement |-> {}],
       [id |-> "treasury", name |-> "Treasury", worker_slots |-> 1,
        action |-> [type |-> "discard_for_currency"],
        worker_requirement |-> {}],
       [id |-> "mill", name |-> "Mill", worker_slots |-> 1,
        action |-> [type |-> "gain_by_worker_color",
                    by_color |-> [black |-> [provisions |-> 1],
                                  grey |-> [choice |-> << [provisions |-> 2], [gold |-> 1] >>]]],
        worker_requirement |-> {}],
       [id |-> "silversmith", name |-> "Silversmith", worker_slots |-> 1,
        action |-> [type |-> "gain_by_worker_color",
                    by_color |-> [black |-> [silver |-> 4],
                                  grey |-> [choice |-> << [silver |-> 2], [gold |-> 1] >>]]],
        worker_requirement |-> {}],
       [id |-> "long_house", name |-> "Long House", worker_slots |-> 1,
        action |-> [type |-> "choose_action"],
        worker_requirement |-> {{"grey", "white"}}] >>

BuildingIds == {Buildings[i].id : i \in DOMAIN Buildings}
UnknownBuilding == "no_such_building"

Cards ==
    << [id |-> "villager", cost |-> 1, strength |-> 1, deck_count |-> 10, vp |-> 0,
        hire_crew_action |-> [type |-> "none"],
        town_hall_action |-> [type |-> "gain_resource", resource |-> "provisions", amount |-> 1],
        is_hero |-> FALSE],
       [id |-> "hero", cost |-> 2, strength |-> 3, deck_count |-> 2, vp |-> 2,
        hire_crew_action |-> [type |-> "raid_strength_bonus", condition |-> "raid_type",
                              raid_type |-> "harbor", bonus |-> 2],
        town_hall_action |-> [type |-> "hero_no_discard"],
        is_hero |-> TRUE] >>

CardIds == {Cards[i].id : i \in DOMAIN Cards}
UnknownCard == "no_such_card"

Raids ==
    << [id |-> "raid_001", name |-> "Harbour 1", type |-> "harbor",
        requirements |-> [min_crew |-> 1, provisions |-> 1, gold |-> 0,
                          worker_colors |-> {"black", "grey"}],
        vp_tiers |-> << [min_strength |-> 6, vp |-> 3], [min_strength |-> 4, vp |-> 2],
                        [min_strength |-> 3, vp |-> 1] >>,
        dice_added |-> 1,
        sublocations |-> << [id |-> "a", plunder |-> 2, worker_on_spot |-> "grey"],
                            [id |-> "b", plunder |-> 1, worker_on_spot |-> "grey"] >>],
       [id |-> "raid_008", name |-> "Fortress 1", type |-> "fortress",
        requirements |-> [min_crew |-> 2, provisions |-> 2, gold |-> 1,
                          worker_colors |-> {"grey", "white"}],
        vp_tiers |-> << [min_strength |-> 4, vp |-> 6], [min_strength |-> 0, vp |-> 2] >>,
        dice_added |-> 2,
        sublocations |-> << [id |-> "a", plunder |-> 2, worker_on_spot |-> "white"] >>] >>

RaidIds == {Raids[i].id : i \in DOMAIN Raids}
UnknownRaid == "no_such_raid"
SublocationIds == UNION {{Raids[i].sublocations[j].id : j \in DOMAIN Raids[i].sublocations} :
                         i \in DOMAIN Raids}
UnknownSublocation == "no_such_sublocation"

\* The offering tiles of the catalog: the game is played with one of these
\* tile lists (a list of at most three tiles leaves the draw stack empty).
OfferingCatalogs ==
    { << [id |-> "off_1", vp |-> 2], [id |-> "off_2", vp |-> 3], [id |-> "off_3", vp |-> 4] >>,
      << [id |-> "off_1", vp |-> 2], [id |-> "off_2", vp |-> 3], [id |-> "off_3", vp |-> 4],
         [id |-> "off_4", vp |-> 5] >> }

(***************************************************************************)
(* Sequence helpers for Python list operations.                            *)
(***************************************************************************)
Reverse(s) == [i \in 1 .. Len(s) |-> s[Len(s) + 1 - i]]

Min(a, b) == IF a < b THEN a ELSE b

\* n times list.pop(), stopping when the list is empty: the popped elements in
\* the order they were popped, and what is left of the list.
PopN(s, n) ==
    LET k == Min(n, Len(s))
    IN  [taken |-> Reverse(SubSeq(s, Len(s) - k + 1, Len(s))),
         rest  |-> SubSeq(s, 1, Len(s) - k)]

\* `x in list`
InSeq(x, s) == \E i \in DOMAIN s : s[i] = x

\* list.remove(x): drops the first element equal to x.
RemoveFirst(s, x) ==
    IF InSeq(x, s)
    THEN LET i == CHOOSE i \in DOMAIN s : s[i] = x /\ \A j \in 1 .. (i - 1) : s[j] # x
         IN  SubSeq(s, 1, i - 1) \o SubSeq(s, i + 1, Len(s))
    ELSE s

CountIn(s, x) == Cardinality({i \in DOMAIN s : s[i] = x})

\* random.shuffle(list): every arrangement of the list's elements.
RECURSIVE ArrangementsOf(_, _)
ArrangementsOf(elems, count) ==
    IF \A e \in elems : count[e] = 0
    THEN {<< >>}
    ELSE UNION { { <<e>> \o rest : rest \in ArrangementsOf(elems, [count EXCEPT ![e] = @ - 1]) } :
                 e \in {x \in elems : count[x] > 0} }

random_shuffle(s) ==
    LET elems == {s[i] : i \in DOMAIN s}
    IN  ArrangementsOf(elems, [e \in elems |-> CountIn(s, e)])

(***************************************************************************)
(* Catalog lookups (board.py, cards.py).  A lookup answers a set: empty    *)
(* for an unknown id (Python's None), else the one entry.                  *)
(***************************************************************************)
get_building(building_id) == {Buildings[i] : i \in {j \in DOMAIN Buildings : Buildings[j].id = building_id}}

get_building_by_name(name) == {Buildings[i] : i \in {j \in DOMAIN Buildings : Buildings[j].name = name}}

get_raid(raid_id) == {Raids[i] : i \in {j \in DOMAIN Raids : Raids[j].id = raid_id}}

get_card(card_id) == {Cards[i] : i \in {j \in DOMAIN Cards : Cards[j].id = card_id}}

TheOne(S) == CHOOSE x \in S : TRUE

CardOf(card_id) == TheOne(get_card(card_id))

\* VillageBuilding.allows_worker_color
building_allows_worker_color(building, color) ==
    IF building.worker_requirement = {}
    THEN TRUE
    ELSE color \in TheOne(building.worker_requirement)

\* RaidLocation.allows_worker_color
raid_allows_worker_color(raid, color) == color \in raid.requirements.worker_colors

\* TownsfolkCard.is_playable_at_town_hall
is_playable_at_town_hall(card) == card.town_hall_action.type # "hero_no_discard"

\* CardDatabase.create_deck: every card, deck_count times, in catalog order.
RECURSIVE create_deck_from(_)
create_deck_from(i) ==
    IF i > Len(Cards)
    THEN << >>
    ELSE [k \in 1 .. Cards[i].deck_count |-> Cards[i].id] \o create_deck_from(i + 1)

create_deck == create_deck_from(1)

(***************************************************************************)
(* GameState.create_initial_state                                          *)
(***************************************************************************)
\* A new player who holds no worker.
NewPlayer_without_worker(i) ==
    [player_id |-> i,
     silver |-> StartingSilver, gold |-> 0, provisions |-> 0, iron |-> 0, livestock |-> 0,
     armour |-> 0, valkyrie |-> 0, vp |-> 0,
     hand |-> << >>, crew |-> << >>, offerings |-> << >>,
     worker_in_hand |-> None,
     has_acted |-> FALSE,
     placed_worker_this_turn |-> None,
     buildings_used_this_turn |-> << >>]

NewPlayer(i) ==
    [player_id |-> i,
     silver |-> StartingSilver, gold |-> 0, provisions |-> 0, iron |-> 0, livestock |-> 0,
     armour |-> 0, valkyrie |-> 0, vp |-> 0,
     hand |-> << >>, crew |-> << >>, offerings |-> << >>,
     worker_in_hand |-> "black",
     has_acted |-> FALSE,
     placed_worker_this_turn |-> None,
     buildings_used_this_turn |-> << >>]

\* Deals to players i .. NumPlayers-1 in turn order: InitialDeal cards popped
\* from the deck, then the last InitialDiscards of the hand popped onto
\* cards_to_bottom.
RECURSIVE DealFrom(_, _, _, _)
DealFrom(i, deck, hands, cards_to_bottom) ==
    IF i >= NumPlayers
    THEN [deck |-> cards_to_bottom \o deck, hands |-> hands]
    ELSE LET drawn     == PopN(deck, InitialDeal)
             discarded == PopN(drawn.taken, InitialDiscards)
         IN  DealFrom(i + 1, drawn.rest,
                      [hands EXCEPT ![i] = discarded.rest],
                      cards_to_bottom \o discarded.taken)

\* One RaidState per catalog sublocation, in catalog order.
RECURSIVE InitialRaidStatesFrom(_)
InitialRaidStatesFrom(i) ==
    IF i > Len(Raids)
    THEN << >>
    ELSE [j \in DOMAIN Raids[i].sublocations |->
             [location_id |-> Raids[i].id,
              sublocation_id |-> Raids[i].sublocations[j].id,
              plunder_remaining |-> Raids[i].sublocations[j].plunder,
              worker_present |-> Raids[i].sublocations[j].worker_on_spot]]
         \o InitialRaidStatesFrom(i + 1)

\* A neutral black worker on Gate House, Town Hall and Treasury.
StartingBuildingNames == << "Gate House", "Town Hall", "Treasury" >>

RECURSIVE InitialPlacementsFrom(_)
InitialPlacementsFrom(i) ==
    IF i > Len(StartingBuildingNames)
    THEN << >>
    ELSE LET found == get_building_by_name(StartingBuildingNames[i])
         IN  (IF found = {}
              THEN << >>
              ELSE << [building_id |-> TheOne(found).id, worker_color |-> "black",
                       player_id |-> NeutralPlayer] >>)
             \o InitialPlacementsFrom(i + 1)

\* random.seed(seed) followed by random.shuffle(list): the seed fixes the
\* arrangement.  The arrangement a seed gives is taken to be the list rotated
\* by 5 * seed places, a sample of the arrangements random.shuffle can give.
seeded_shuffle(list, seed) ==
    IF list = << >>
    THEN list
    ELSE [i \in 1 .. Len(list) |-> list[((i - 1 + 5 * seed) % Len(list)) + 1]]

\* GameState.create_initial_state(player_names, seed), for NumPlayers names
\* and the given offering tiles of the catalog.
create_initial_state(seed, offering_tiles) ==
    LET deck      == seeded_shuffle(create_deck, seed)
        dealt     == DealFrom(0, deck, [p \in Players |-> << >>], << >>)
        offerings == seeded_shuffle(offering_tiles, seed)
        shown     == PopN(offerings, VisibleOfferingSlots)
    IN  [players |-> [p \in Players |-> [NewPlayer(p) EXCEPT !.hand = dealt.hands[p]]],
         current_player_idx |-> 0,
         first_player_idx |-> 0,
         phase |-> "work",
         round_number |-> 1,
         townsfolk_deck |-> dealt.deck,
         townsfolk_discard |-> << >>,
         offering_stack |-> shown.rest,
         visible_offerings |-> shown.taken,
         worker_placements |-> InitialPlacementsFrom(1),
         raid_states |-> InitialRaidStatesFrom(1),
         neutral_workers |-> << "grey", "grey", "grey", "white" >>,
         game_ended |-> FALSE,
         winner_id |-> {}]

(***************************************************************************)
(* GameState and PlayerState primitives (state.py).                        *)
(***************************************************************************)
\* GameState.get_player: the empty set for an id no player has.
get_player(s, player_id) == {s.players[p] : p \in {q \in Players : q = player_id}}

\* GameState.get_worker_at_building
get_worker_at_building(s, building_id) ==
    SelectSeq(s.worker_placements, LAMBDA wp : wp.building_id = building_id)

\* GameState.get_raid_state: the empty set when no RaidState has the key.
get_raid_state(s, location_id, sublocation_id) ==
    {s.raid_states[i] : i \in {j \in DOMAIN s.raid_states :
                                  /\ s.raid_states[j].location_id = location_id
                                  /\ s.raid_states[j].sublocation_id = sublocation_id}}

\* draw_card that never reshuffles: no card when the deck is empty.
draw_card_without_reshuffle(s) ==
    { IF s.townsfolk_deck # << >>
      THEN [card  |-> << s.townsfolk_deck[Len(s.townsfolk_deck)] >>,
            state |-> [s EXCEPT !.townsfolk_deck = SubSeq(@, 1, Len(@) - 1)]]
      ELSE [card |-> << >>, state |-> s] }

\* draw_card whose reshuffle leaves the discard pile as it was.
draw_card_keeping_discard(s) ==
    LET refilled == IF s.townsfolk_deck = << >>
                    THEN { [s EXCEPT !.townsfolk_deck = d] : d \in random_shuffle(s.townsfolk_discard) }
                    ELSE {s}
    IN  { IF r.townsfolk_deck # << >>
          THEN [card  |-> << r.townsfolk_deck[Len(r.townsfolk_deck)] >>,
                state |-> [r EXCEPT !.townsfolk_deck = SubSeq(@, 1, Len(@) - 1)]]
          ELSE [card |-> << >>, state |-> r]
          : r \in refilled }

\* GameState.draw_card: the possible outcomes, each the card drawn (a list of
\* at most one card) and the state left.  An empty deck is first replaced by
\* a shuffle of the discard pile.
draw_card(s) ==
    LET refilled == IF s.townsfolk_deck = << >>
                    THEN { [s EXCEPT !.townsfolk_deck = d, !.townsfolk_discard = << >>] :
                           d \in random_shuffle(s.townsfolk_discard) }
                    ELSE {s}
    IN  { IF r.townsfolk_deck # << >>
          THEN [card  |-> << r.townsfolk_deck[Len(r.townsfolk_deck)] >>,
                state |-> [r EXCEPT !.townsfolk_deck = SubSeq(@, 1, Len(@) - 1)]]
          ELSE [card |-> << >>, state |-> r]
          : r \in refilled }

\* GameState.discard_card
discard_card(s, card) == [s EXCEPT !.townsfolk_discard = Append(@, card)]

\* GameState.next_player
next_player(s) == [s EXCEPT !.current_player_idx = (@ + 1) % NumPlayers]

\* is_round_complete answering true as soon as one player has acted.
is_round_complete_when_any_acted(s) == \E p \in Players : s.players[p].has_acted

\* GameState.is_round_complete
is_round_complete(s) == \A p \in Players : s.players[p].has_acted

\* start_new_round that also restocks every raid sublocation by one plunder.
start_new_round_restocking(s) ==
    [s EXCEPT !.round_number = @ + 1,
              !.players = [p \in Players |-> [s.players[p] EXCEPT !.has_acted = FALSE]],
              !.current_player_idx = s.first_player_idx,
              !.phase = "work",
              !.raid_states = [i \in DOMAIN s.raid_states |->
                                  [s.raid_states[i] EXCEPT !.plunder_remaining = @ + 1]]]

\* GameState.start_new_round
start_new_round(s) ==
    [s EXCEPT !.round_number = @ + 1,
              !.players = [p \in Players |-> [s.players[p] EXCEPT !.has_acted = FALSE]],
              !.current_player_idx = s.first_player_idx,
              !.phase = "work"]

\* reset_turn_tracking that leaves buildings_used_this_turn as it is.
reset_turn_tracking_keeping_buildings(player) ==
    [player EXCEPT !.placed_worker_this_turn = None]

\* PlayerState.reset_turn_tracking
reset_turn_tracking(player) ==
    [player EXCEPT !.placed_worker_this_turn = None, !.buildings_used_this_turn = << >>]

\* PlayerState.has_hero
has_hero(player) == \E i \in DOMAIN player.crew : CardOf(player.crew[i]).is_hero

RECURSIVE SumInts(_)
SumInts(ns) == IF ns = << >> THEN 0 ELSE ns[1] + SumInts(Tail(ns))

\* PlayerState.get_final_vp
get_final_vp(player) ==
    player.vp
    + SumInts([i \in DOMAIN player.crew |-> CardOf(player.crew[i]).vp])
    + SumInts([i \in DOMAIN player.offerings |-> player.offerings[i].vp])

\* GameState.determine_winner: the loop over the players in order, keeping
\* the first player whose final VP is above the maximum so far (-1 at first).
RECURSIVE winner_scan(_, _, _, _)
winner_scan(s, i, max_vp, winner) ==
    IF i >= NumPlayers
    THEN winner
    ELSE IF get_final_vp(s.players[i]) > max_vp
         THEN winner_scan(s, i + 1, get_final_vp(s.players[i]), {s.players[i].player_id})
         ELSE winner_scan(s, i + 1, max_vp, winner)

\* determine_winner keeping the last player who reaches the maximum.
determine_winner_keeping_last_maximum(s) ==
    LET best == CHOOSE p \in Players :
                    \A q \in Players :
                        \/ get_final_vp(s.players[p]) > get_final_vp(s.players[q])
                        \/ get_final_vp(s.players[p]) = get_final_vp(s.players[q]) /\ p >= q
    IN  [s EXCEPT !.winner_id = {s.players[best].player_id}, !.phase = "game_end"]

determine_winner(s) ==
    LET winner == winner_scan(s, 0, 0 - 1, {})
    IN  IF winner # {}
        THEN [s EXCEPT !.winner_id = winner, !.phase = "game_end"]
        ELSE s

\* location_id.startswith('raid_008') or ...('raid_009') or ...('raid_010'):
\* catalog ids have the length of these prefixes, so a prefix match is equality.
FortressIdPrefixes == {"raid_008", "raid_009", "raid_010"}

fortress_plunder(s) ==
    SumInts([i \in DOMAIN s.raid_states |->
                IF s.raid_states[i].location_id \in FortressIdPrefixes
                THEN s.raid_states[i].plunder_remaining
                ELSE 0])

\* The two conditions GameState.check_end_conditions tests.
end_condition_holds(s) == fortress_plunder(s) <= 1 \/ s.offering_stack = << >>

\* check_end_conditions without the test of the offering stack.
check_end_conditions_without_offering_test(s) ==
    IF fortress_plunder(s) <= 1
    THEN determine_winner([s EXCEPT !.game_ended = TRUE])
    ELSE s

\* GameState.check_end_conditions
check_end_conditions(s) ==
    IF end_condition_holds(s)
    THEN determine_winner([s EXCEPT !.game_ended = TRUE])
    ELSE s

(***************************************************************************)
(* Building effects (actions.py, the same code in PlaceWorkerAction and    *)
(* PickupWorkerAction).                                                    *)
(***************************************************************************)
\* for _ in range(amount): card = state.draw_card(); if card: hand.append(card)
RECURSIVE draw_into_hand(_, _, _)
draw_into_hand(s, pid, amount) ==
    IF amount <= 0
    THEN {s}
    ELSE UNION { draw_into_hand([d.state EXCEPT !.players[pid].hand = @ \o d.card], pid, amount - 1) :
                 d \in draw_card(s) }

AmountOf(resources, r) == IF r \in DOMAIN resources THEN resources[r] ELSE 0

\* The "Grant resources" loop: only the five resource counters are touched.
grant_resources(player, resources) ==
    [player EXCEPT !.silver     = @ + AmountOf(resources, "silver"),
                   !.gold       = @ + AmountOf(resources, "gold"),
                   !.provisions = @ + AmountOf(resources, "provisions"),
                   !.iron       = @ + AmountOf(resources, "iron"),
                   !.livestock  = @ + AmountOf(resources, "livestock")]

execute_building_action(s, pid, building, worker_color) ==
    IF building.action.type = "draw_cards"
    THEN draw_into_hand(s, pid, building.action.amount)
    ELSE IF building.action.type = "gain_by_worker_color"
    THEN LET by_color   == building.action.by_color
             color_data == IF worker_color \in DOMAIN by_color THEN by_color[worker_color] ELSE NoResources
             resources  == IF "choice" \in DOMAIN color_data THEN color_data.choice[1] ELSE color_data
         IN  { [s EXCEPT !.players[pid] = grant_resources(@, resources)] }
    ELSE {s}

\* if building_id not in buildings_used_this_turn: append
mark_building_used(player, building_id) ==
    IF InSeq(building_id, player.buildings_used_this_turn)
    THEN player
    ELSE [player EXCEPT !.buildings_used_this_turn = Append(@, building_id)]

\* while len(hand) > 8: discard_card(hand.pop())
enforce_hand_limit(s, pid) ==
    LET hand == s.players[pid].hand
    IN  IF Len(hand) > HandLimit
        THEN [s EXCEPT !.players[pid].hand = SubSeq(hand, 1, HandLimit),
                       !.townsfolk_discard = @ \o Reverse(SubSeq(hand, HandLimit + 1, Len(hand)))]
        ELSE s

\* The end of a turn, shared by PickupWorkerAction.execute and
\* RaidAction.execute: has_acted, hand limit, next player, reset of the next
\* player's turn tracking, round rollover.
end_turn(s, pid) ==
    LET acted   == [s EXCEPT !.players[pid].has_acted = TRUE]
        limited == enforce_hand_limit(acted, pid)
        moved   == next_player(limited)
        fresh   == [moved EXCEPT !.players[moved.current_player_idx] = reset_turn_tracking(@)]
    IN  IF is_round_complete(fresh) THEN start_new_round(fresh) ELSE fresh

(***************************************************************************)
(* The actions (actions.py).  An action is a record with the fields of its *)
(* dataclass; is_legal answers "True" or "False", or the name of the       *)
(* exception the predicate raises; execute answers the possible resulting  *)
(* states.                                                                 *)
(***************************************************************************)
PlaceWorkerAction(player_id, building_id) ==
    [action_type |-> "place_worker", player_id |-> player_id, building_id |-> building_id]

PickupWorkerAction(player_id, building_id) ==
    [action_type |-> "pickup_worker", player_id |-> player_id, building_id |-> building_id]

HireCrewAction(player_id, card_id, discard_crew_id) ==
    [action_type |-> "hire_crew", player_id |-> player_id, card_id |-> card_id,
     discard_crew_id |-> discard_crew_id]

PlayCardTownHallAction(player_id, card_id) ==
    [action_type |-> "play_card_town_hall", player_id |-> player_id, card_id |-> card_id]

RaidAction(player_id, location_id, sublocation_id, crew_ids) ==
    [action_type |-> "raid", player_id |-> player_id, location_id |-> location_id,
     sublocation_id |-> sublocation_id, crew_ids |-> crew_ids]

Bool(b) == IF b THEN "True" ELSE "False"

\* PlaceWorkerAction.is_legal without the "building has space" test.
PlaceWorker_is_legal_without_space_test(s, a) ==
    IF get_player(s, a.player_id) = {}
    THEN "False"
    ELSE LET player == TheOne(get_player(s, a.player_id))
         IN  IF player.worker_in_hand = None THEN "False"
             ELSE IF player.placed_worker_this_turn # None THEN "False"
             ELSE IF get_building(a.building_id) = {} THEN "False"
             ELSE Bool(building_allows_worker_color(TheOne(get_building(a.building_id)),
                                                    player.worker_in_hand))

\* PlaceWorkerAction.is_legal
PlaceWorker_is_legal(s, a) ==
    IF get_player(s, a.player_id) = {}
    THEN "False"
    ELSE LET player == TheOne(get_player(s, a.player_id))
         IN  IF player.worker_in_hand = None THEN "False"
             ELSE IF player.placed_worker_this_turn # None THEN "False"
             ELSE IF get_building(a.building_id) = {} THEN "False"
             ELSE LET building == TheOne(get_building(a.building_id))
                  IN  IF ~ building_allows_worker_color(building, player.worker_in_hand) THEN "False"
                      ELSE IF Len(get_worker_at_building(s, a.building_id)) >= building.worker_slots
                           THEN "False"
                           ELSE "True"

\* PlaceWorkerAction.execute that ends the turn as a pickup does.
PlaceWorker_execute_ending_turn(s, a) ==
    LET pid      == a.player_id
        player   == s.players[pid]
        building == TheOne(get_building(a.building_id))
        placed   == [s EXCEPT !.worker_placements =
                                  Append(@, [building_id |-> a.building_id,
                                             worker_color |-> player.worker_in_hand,
                                             player_id |-> pid]),
                              !.players[pid].placed_worker_this_turn = a.building_id,
                              !.players[pid].worker_in_hand = None]
    IN  { end_turn([t EXCEPT !.players[pid] = mark_building_used(@, a.building_id)], pid) :
          t \in execute_building_action(placed, pid, building, player.worker_in_hand) }

\* PlaceWorkerAction.execute
PlaceWorker_execute(s, a) ==
    LET pid           == a.player_id
        building      == TheOne(get_building(a.building_id))
        placed_worker == s.players[pid].worker_in_hand
        placed        == [s EXCEPT !.worker_placements =
                                       Append(@, [building_id |-> a.building_id,
                                                  worker_color |-> placed_worker,
                                                  player_id |-> pid]),
                                   !.players[pid].placed_worker_this_turn = a.building_id,
                                   !.players[pid].worker_in_hand = None]
    IN  { [t EXCEPT !.players[pid] = mark_building_used(@, a.building_id)] :
          t \in execute_building_action(placed, pid, building, placed_worker) }

\* PickupWorkerAction.is_legal without the tests of the building placed at
\* and of the buildings used this turn.
PickupWorker_is_legal_at_used_building(s, a) ==
    IF get_player(s, a.player_id) = {}
    THEN "False"
    ELSE LET player == TheOne(get_player(s, a.player_id))
         IN  IF player.worker_in_hand # None THEN "False"
             ELSE IF player.placed_worker_this_turn = None THEN "False"
             ELSE Bool(Len(get_worker_at_building(s, a.building_id)) > 0)

\* PickupWorkerAction.is_legal that only accepts a building holding a worker
\* the player placed.
PickupWorker_is_legal_for_own_worker(s, a) ==
    IF get_player(s, a.player_id) = {}
    THEN "False"
    ELSE LET player == TheOne(get_player(s, a.player_id))
         IN  IF player.worker_in_hand # None THEN "False"
             ELSE IF player.placed_worker_this_turn = None THEN "False"
             ELSE IF player.placed_worker_this_turn = a.building_id THEN "False"
             ELSE IF InSeq(a.building_id, player.buildings_used_this_turn) THEN "False"
             ELSE Bool(\E i \in DOMAIN s.worker_placements :
                          /\ s.worker_placements[i].building_id = a.building_id
                          /\ s.worker_placements[i].player_id = a.player_id)

\* PickupWorkerAction.is_legal
PickupWorker_is_legal(s, a) ==
    IF get_player(s, a.player_id) = {}
    THEN "False"
    ELSE LET player == TheOne(get_player(s, a.player_id))
         IN  IF player.worker_in_hand # None THEN "False"
             ELSE IF player.placed_worker_this_turn = None THEN "False"
             ELSE IF player.placed_worker_this_turn = a.building_id THEN "False"
             ELSE IF InSeq(a.building_id, player.buildings_used_this_turn) THEN "False"
             ELSE Bool(Len(get_worker_at_building(s, a.building_id)) > 0)

\* PickupWorkerAction.execute that hands over the worker's colour and leaves
\* the worker on the building.
PickupWorker_execute_leaving_worker(s, a) ==
    LET pid          == a.player_id
        workers_here == get_worker_at_building(s, a.building_id)
    IN  IF workers_here = << >>
        THEN {s}
        ELSE LET worker   == workers_here[1]
                 building == TheOne(get_building(a.building_id))
                 picked   == [s EXCEPT !.players[pid].worker_in_hand = worker.worker_color]
             IN  { end_turn([t EXCEPT !.players[pid] = mark_building_used(@, a.building_id)], pid) :
                   t \in execute_building_action(picked, pid, building, worker.worker_color) }

\* PickupWorkerAction.execute
PickupWorker_execute(s, a) ==
    LET pid          == a.player_id
        workers_here == get_worker_at_building(s, a.building_id)
    IN  IF workers_here = << >>
        THEN {s}
        ELSE LET worker   == workers_here[1]
                 building == TheOne(get_building(a.building_id))
                 picked   == [s EXCEPT !.worker_placements = RemoveFirst(@, worker),
                                       !.players[pid].worker_in_hand = worker.worker_color]
             IN  { end_turn([t EXCEPT !.players[pid] = mark_building_used(@, a.building_id)], pid) :
                   t \in execute_building_action(picked, pid, building, worker.worker_color) }

\* HireCrewAction.is_legal without the hero restriction.
HireCrew_is_legal_without_hero_test(s, a) ==
    IF get_player(s, a.player_id) = {}
    THEN "False"
    ELSE LET player == TheOne(get_player(s, a.player_id))
         IN  IF ~ InSeq(a.card_id, player.hand) THEN "False"
             ELSE IF player.silver < CardOf(a.card_id).cost THEN "False"
             ELSE IF Len(player.crew) >= CrewLimit /\ a.discard_crew_id = None THEN "False"
             ELSE "True"

\* HireCrewAction.is_legal
HireCrew_is_legal(s, a) ==
    IF get_player(s, a.player_id) = {}
    THEN "False"
    ELSE LET player == TheOne(get_player(s, a.player_id))
         IN  IF ~ InSeq(a.card_id, player.hand) THEN "False"
             ELSE IF player.silver < CardOf(a.card_id).cost THEN "False"
             ELSE IF Len(player.crew) >= CrewLimit /\ a.discard_crew_id = None THEN "False"
             ELSE IF CardOf(a.card_id).is_hero /\ has_hero(player) THEN "False"
             ELSE "True"

\* HireCrewAction.execute
HireCrew_execute(s, a) ==
    LET pid    == a.player_id
        player == s.players[pid]
    IN  IF ~ InSeq(a.card_id, player.hand)
        THEN {s}
        ELSE LET taken == [s EXCEPT !.players[pid].hand = RemoveFirst(@, a.card_id)]
                 freed == IF a.discard_crew_id # None /\ InSeq(a.discard_crew_id, player.crew)
                          THEN discard_card([taken EXCEPT !.players[pid].crew =
                                                              RemoveFirst(@, a.discard_crew_id)],
                                            a.discard_crew_id)
                          ELSE taken
             IN  { [freed EXCEPT !.players[pid].silver = @ - CardOf(a.card_id).cost,
                                 !.players[pid].crew = Append(@, a.card_id)] }

\* PlayCardTownHallAction.is_legal
PlayCardTownHall_is_legal(s, a) ==
    IF get_player(s, a.player_id) = {}
    THEN "False"
    ELSE LET player == TheOne(get_player(s, a.player_id))
         IN  IF ~ InSeq(a.card_id, player.hand) /\ ~ InSeq(a.card_id, player.crew)
             THEN "False"
             ELSE Bool(is_playable_at_town_hall(CardOf(a.card_id)))

\* PlayCardTownHallAction.execute: the card goes from the hand (or, when not
\* in the hand, from the crew) to the discard pile; no effect is resolved.
PlayCardTownHall_execute(s, a) ==
    LET pid    == a.player_id
        player == s.players[pid]
    IN  IF InSeq(a.card_id, player.hand)
        THEN { discard_card([s EXCEPT !.players[pid].hand = RemoveFirst(@, a.card_id)], a.card_id) }
        ELSE IF InSeq(a.card_id, player.crew)
        THEN { discard_card([s EXCEPT !.players[pid].crew = RemoveFirst(@, a.card_id)], a.card_id) }
        ELSE {s}

\* RaidAction.is_legal.  The last test calls raid_state.get_plunder_remaining(),
\* a method the RaidState dataclass (state.py) does not have: when the
\* RaidState exists the call raises AttributeError.
Raid_is_legal(s, a) ==
    IF get_player(s, a.player_id) = {}
    THEN "False"
    ELSE LET player == TheOne(get_player(s, a.player_id))
         IN  IF player.worker_in_hand = None THEN "False"
             ELSE IF player.placed_worker_this_turn = None THEN "False"
             ELSE IF get_raid(a.location_id) = {} THEN "False"
             ELSE LET raid == TheOne(get_raid(a.location_id))
                  IN  IF ~ raid_allows_worker_color(raid, player.worker_in_hand) THEN "False"
                      ELSE IF Len(a.crew_ids) < raid.requirements.min_crew THEN "False"
                      ELSE IF \E i \in DOMAIN a.crew_ids : ~ InSeq(a.crew_ids[i], player.crew) THEN "False"
                      ELSE IF player.provisions < raid.requirements.provisions THEN "False"
                      ELSE IF player.gold < raid.requirements.gold THEN "False"
                      ELSE IF get_raid_state(s, a.location_id, a.sublocation_id) = {} THEN "False"
                      ELSE "AttributeError"

\* RaidLocation.get_vp_for_strength: the VP of the first tier, in list order,
\* whose min_strength the strength reaches; 0 when there is none.
RECURSIVE vp_from_tier(_, _, _)
vp_from_tier(raid, strength, i) ==
    IF i > Len(raid.vp_tiers)
    THEN 0
    ELSE IF strength >= raid.vp_tiers[i].min_strength
         THEN raid.vp_tiers[i].vp
         ELSE vp_from_tier(raid, strength, i + 1)

\* get_vp_for_strength answering the VP of the last tier the strength reaches.
get_vp_for_strength_of_last_match(raid, strength) ==
    LET reached == SelectSeq(raid.vp_tiers, LAMBDA tier : strength >= tier.min_strength)
    IN  IF reached = << >> THEN 0 ELSE reached[Len(reached)].vp

get_vp_for_strength(raid, strength) == vp_from_tier(raid, strength, 1)

\* RaidAction.execute, "Calculate total strength": the sum of the strength
\* field of the crew cards whose id is among crew_ids.
raid_total_strength(player, crew_ids) ==
    SumInts([i \in DOMAIN player.crew |->
                IF InSeq(player.crew[i], crew_ids) THEN CardOf(player.crew[i]).strength ELSE 0])

\* sum(random.randint(1, 6) for _ in range(dice_added)): the possible totals.
DiceTotals(dice_added) == IF dice_added = 0 THEN {0} ELSE dice_added .. (6 * dice_added)

\* RaidAction.execute.  The costs are paid and the VP are added; then the
\* plunder loop reads raid_state.plunder_resources, an attribute the RaidState
\* dataclass (state.py) does not have: the call raises AttributeError there
\* and the mutations made so far stay in the state object.  Nothing after
\* that statement (plunder, worker, end of turn) is executed.  A missing
\* player, raid or raid state raises AttributeError on None before any
\* mutation.
Raid_execute(s, a) ==
    IF \/ get_player(s, a.player_id) = {}
       \/ get_raid(a.location_id) = {}
       \/ get_raid_state(s, a.location_id, a.sublocation_id) = {}
    THEN {s}
    ELSE LET pid  == a.player_id
             raid == TheOne(get_raid(a.location_id))
             paid == [s EXCEPT !.players[pid].provisions = @ - raid.requirements.provisions,
                               !.players[pid].gold = @ - raid.requirements.gold]
             total_strength == raid_total_strength(s.players[pid], a.crew_ids)
         IN  { [paid EXCEPT !.players[pid].vp =
                               @ + get_vp_for_strength(raid, total_strength + dice_total)] :
               dice_total \in DiceTotals(raid.dice_added) }

\* Action.is_legal, dispatched on the action's class.
is_legal(s, a) ==
    CASE a.action_type = "place_worker"        -> PlaceWorker_is_legal(s, a)
      [] a.action_type = "pickup_worker"       -> PickupWorker_is_legal(s, a)
      [] a.action_type = "hire_crew"           -> HireCrew_is_legal(s, a)
      [] a.action_type = "play_card_town_hall" -> PlayCardTownHall_is_legal(s, a)
      [] a.action_type = "raid"                -> Raid_is_legal(s, a)

\* Action.execute for the actions whose is_legal can answer "True".
execute(s, a) ==
    CASE a.action_type = "place_worker"        -> PlaceWorker_execute(s, a)
      [] a.action_type = "pickup_worker"       -> PickupWorker_execute(s, a)
      [] a.action_type = "hire_crew"           -> HireCrew_execute(s, a)
      [] a.action_type = "play_card_town_hall" -> PlayCardTownHall_execute(s, a)

(***************************************************************************)
(* The generator of the random module.  state.py and actions.py call the   *)
(* module-level functions random.seed, random.shuffle and random.randint:  *)
(* every game of a process draws from the same generator.  Its state is    *)
(* the seed it was last given and the number of shuffles drawn since; the  *)
(* arrangement a shuffle gives is fixed by that state.                     *)
(***************************************************************************)
\* The generator after create_initial_state(names, seed): seeded, then the
\* shuffles of the deck and of the offerings.
random_after_setup(seed) == [seed |-> seed, drawn |-> 2]

\* random.shuffle(list) in generator state g: the arrangement, and the
\* generator afterwards (a list of fewer than two elements draws nothing).
shuffle_at(list, g) ==
    [list         |-> seeded_shuffle(list, g.seed + g.drawn),
     random_state |-> IF Len(list) >= 2 THEN [g EXCEPT !.drawn = @ + 1] ELSE g]

\* GameState.draw_card in generator state g.
draw_card_at(s, g) ==
    LET shuffled == shuffle_at(s.townsfolk_discard, g)
        refilled == IF s.townsfolk_deck = << >>
                    THEN [s EXCEPT !.townsfolk_deck = shuffled.list, !.townsfolk_discard = << >>]
                    ELSE s
        after    == IF s.townsfolk_deck = << >> THEN shuffled.random_state ELSE g
    IN  IF refilled.townsfolk_deck # << >>
        THEN [card  |-> << refilled.townsfolk_deck[Len(refilled.townsfolk_deck)] >>,
              state |-> [refilled EXCEPT !.townsfolk_deck = SubSeq(@, 1, Len(@) - 1)],
              random_state |-> after]
        ELSE [card |-> << >>, state |-> refilled, random_state |-> after]

\* The draw loop of a building action in generator state g.
RECURSIVE draw_into_hand_at(_, _, _, _)
draw_into_hand_at(s, pid, amount, g) ==
    IF amount <= 0
    THEN [state |-> s, random_state |-> g]
    ELSE LET d == draw_card_at(s, g)
         IN  draw_into_hand_at([d.state EXCEPT !.players[pid].hand = @ \o d.card],
                               pid, amount - 1, d.random_state)

\* The cards an accepted action draws: those of its building's draw_cards
\* action, for a placement or a pickup.
cards_drawn_by(a) ==
    IF a.action_type \in {"place_worker", "pickup_worker"}
       /\ TheOne(get_building(a.building_id)).action.type = "draw_cards"
    THEN TheOne(get_building(a.building_id)).action.amount
    ELSE 0

\* Action.execute in generator state g: the one outcome of execute whose draws
\* are those the generator gives, and the generator afterwards.  An action
\* that draws no card has one outcome.
execute_at(s, a, g) ==
    LET drawn == draw_into_hand_at(s, a.player_id, cards_drawn_by(a), g)
        dealt == IF a.action_type = "pickup_worker"
                 THEN enforce_hand_limit(drawn.state, a.player_id)
                 ELSE drawn.state
    IN  [state |-> IF cards_drawn_by(a) = 0
                   THEN TheOne(execute(s, a))
                   ELSE CHOOSE t \in execute(s, a) :
                            /\ t.townsfolk_deck = dealt.townsfolk_deck
                            /\ t.townsfolk_discard = dealt.townsfolk_discard
                            /\ t.players[a.player_id].hand = dealt.players[a.player_id].hand,
         random_state |-> drawn.random_state]

(***************************************************************************)
(* The rules engine's legal-move generator (rules.py).                     *)
(***************************************************************************)
\* RulesEngine.calculate_raid_strength: per selected crew card the strength
\* field plus the bonus its hire_crew_action describes.
card_raid_strength(player, selected_crew, card, raid_location_id) ==
    LET effect == card.hire_crew_action
    IN  card.strength
        + (IF effect.type = "dynamic_strength"
           THEN (IF effect.condition = "armour_count"
                 THEN (player.armour \div effect.divisor) * effect.bonus_per
                 ELSE IF effect.condition = "crew_count"
                 THEN Len(SelectSeq(selected_crew, LAMBDA c : c # card.id)) * effect.bonus_per
                 ELSE IF effect.condition = "valkyrie_count"
                 THEN (player.valkyrie \div effect.divisor) * effect.bonus_per
                 ELSE 0)
           ELSE IF effect.type = "raid_strength_bonus"
           THEN (IF /\ get_raid(raid_location_id) # {}
                    /\ effect.condition = "raid_type"
                    /\ TheOne(get_raid(raid_location_id)).type = effect.raid_type
                 THEN effect.bonus
                 ELSE 0)
           ELSE 0)

calculate_raid_strength(s, player, crew_ids, raid_location_id) ==
    LET selected_crew == SelectSeq(player.crew, LAMBDA c : InSeq(c, crew_ids))
    IN  SumInts([i \in DOMAIN selected_crew |->
                    card_raid_strength(player, selected_crew, CardOf(selected_crew[i]),
                                       raid_location_id)])

\* _has_resources answering true when any one of the amounts is held.
has_resources_any(player, resources) ==
    \E r \in DOMAIN resources \cap ResourceNames : player[r] >= resources[r]

\* RulesEngine._has_resources: only the five resource counters are tested.
has_resources(player, resources) ==
    \A r \in DOMAIN resources \cap ResourceNames : player[r] >= resources[r]

\* _take_resource without the floor at 0.
take_resource_below_zero(player, resource, amount) ==
    IF resource \in ResourceNames
    THEN [player EXCEPT ![resource] = @ - amount]
    ELSE player

\* RulesEngine._take_resource: max(0, counter - amount).
take_resource(player, resource, amount) ==
    IF resource \in ResourceNames
    THEN [player EXCEPT ![resource] = IF @ - amount > 0 THEN @ - amount ELSE 0]
    ELSE player

\* RulesEngine._take_resources: _take_resource for every item of the mapping
\* (the items name different counters, so their order does not matter).
take_resources(player, resources) ==
    [f \in DOMAIN player |->
        IF f \in DOMAIN resources \cap ResourceNames
        THEN take_resource(player, f, resources[f])[f]
        ELSE player[f]]

\* refill_offerings that stops after one tile.
refill_offerings_by_one(s) ==
    LET moved == PopN(s.offering_stack,
                      Min(1, VisibleOfferingSlots - Len(s.visible_offerings)))
    IN  [s EXCEPT !.visible_offerings = @ \o moved.taken, !.offering_stack = moved.rest]

\* GameState.refill_offerings: pops from the stack onto the visible tiles
\* while fewer than three are visible and the stack is not empty.
refill_offerings(s) ==
    LET moved == PopN(s.offering_stack, VisibleOfferingSlots - Len(s.visible_offerings))
    IN  [s EXCEPT !.visible_offerings = @ \o moved.taken, !.offering_stack = moved.rest]

\* The collect_from_opponents loop without the test that the opponent holds
\* the amount: the opponent loses what there is and the player gains the
\* whole amount.
RECURSIVE collect_from_opponents_unchecked(_, _, _, _, _)
collect_from_opponents_unchecked(s, pid, i, options, amount) ==
    IF i >= NumPlayers
    THEN {s}
    ELSE IF i = pid
    THEN collect_from_opponents_unchecked(s, pid, i + 1, options, amount)
    ELSE UNION { collect_from_opponents_unchecked(
                     [s EXCEPT !.players[i] = take_resource(@, chosen_resource, amount),
                               !.players[pid] = grant_resources(@, chosen_resource :> amount)],
                     pid, i + 1, options, amount)
                 : chosen_resource \in {options[k] : k \in DOMAIN options} }

\* The collect_from_opponents loop from player i on: each opponent gives the
\* resource random.choice picks among the options, when holding the amount.
RECURSIVE collect_from_opponents(_, _, _, _, _)
collect_from_opponents(s, pid, i, options, amount) ==
    IF i >= NumPlayers
    THEN {s}
    ELSE IF i = pid
    THEN collect_from_opponents(s, pid, i + 1, options, amount)
    ELSE UNION { LET given == (chosen_resource :> amount)
                 IN  IF has_resources(s.players[i], given)
                     THEN collect_from_opponents(
                              [s EXCEPT !.players[i] = take_resource(@, chosen_resource, amount),
                                        !.players[pid] = grant_resources(@, given)],
                              pid, i + 1, options, amount)
                     ELSE collect_from_opponents(s, pid, i + 1, options, amount)
                 : chosen_resource \in {options[k] : k \in DOMAIN options} }

\* RulesEngine.resolve_town_hall_effect(state, player, card), for the
\* town_hall_action `effect` of the card: the possible resulting states.
\* Effect types that wait for a player's choice do nothing.
resolve_town_hall_effect(s, pid, effect) ==
    CASE effect.type = "gain_resource" ->
            IF effect.resource = "armour"
            THEN { [s EXCEPT !.players[pid].armour = Min(10, @ + effect.amount)] }
            ELSE IF effect.resource = "provisions"
            THEN { [s EXCEPT !.players[pid].provisions = @ + effect.amount] }
            ELSE { [s EXCEPT !.players[pid] =
                                 grant_resources(@, effect.resource :> effect.amount)] }
      [] effect.type = "gain_resources" ->
            { [s EXCEPT !.players[pid] = grant_resources(@, effect.resources)] }
      [] effect.type = "opponents_lose_resource" ->
            { [s EXCEPT !.players =
                           [q \in Players |->
                               IF q # pid
                               THEN take_resource(s.players[q], effect.resource, effect.amount)
                               ELSE s.players[q]]] }
      [] effect.type = "trade" ->
            IF has_resources(s.players[pid], effect.give)
            THEN { [s EXCEPT !.players[pid] =
                                 grant_resources(take_resources(@, effect.give), effect.receive)] }
            ELSE {s}
      [] effect.type = "draw_cards" -> draw_into_hand(s, pid, effect.amount)
      [] effect.type = "manipulate_offerings" ->
            IF Len(s.visible_offerings) = 3
            THEN { refill_offerings([s EXCEPT !.offering_stack = Reverse(s.visible_offerings) \o @,
                                              !.visible_offerings = << >>]) }
            ELSE {s}
      [] effect.type = "collect_from_opponents" ->
            collect_from_opponents(s, pid, 0, effect.options, effect.amount)
      [] OTHER -> {s}

\* RulesEngine._get_legal_place_actions
get_legal_place_actions(s, player) ==
    SelectSeq([i \in DOMAIN Buildings |-> PlaceWorkerAction(player.player_id, Buildings[i].id)],
              LAMBDA a : is_legal(s, a) = "True")

\* _get_legal_pickup_actions without the is_legal filter.
get_legal_pickup_actions_unfiltered(s, player) ==
    [i \in DOMAIN Buildings |-> PickupWorkerAction(player.player_id, Buildings[i].id)]

\* RulesEngine._get_legal_pickup_actions
get_legal_pickup_actions(s, player) ==
    SelectSeq([i \in DOMAIN Buildings |-> PickupWorkerAction(player.player_id, Buildings[i].id)],
              LAMBDA a : is_legal(s, a) = "True")

\* The crew the generator names for a raid: player.crew[:min_crew].
first_crew_ids(player, raid) == SubSeq(player.crew, 1, Min(raid.requirements.min_crew, Len(player.crew)))

\* RulesEngine._get_legal_raid_actions, for the raids from index i on.
RECURSIVE get_legal_raid_actions_from(_, _, _)
get_legal_raid_actions_from(s, player, i) ==
    IF i > Len(Raids)
    THEN << >>
    ELSE LET raid == Raids[i]
             tried == IF Len(player.crew) >= raid.requirements.min_crew
                      THEN [j \in DOMAIN raid.sublocations |->
                               RaidAction(player.player_id, raid.id, raid.sublocations[j].id,
                                          first_crew_ids(player, raid))]
                      ELSE << >>
         IN  SelectSeq(tried, LAMBDA a : is_legal(s, a) = "True")
             \o get_legal_raid_actions_from(s, player, i + 1)

get_legal_raid_actions(s, player) == get_legal_raid_actions_from(s, player, 1)

\* RulesEngine.get_legal_actions
get_legal_actions(s) ==
    LET player == s.players[s.current_player_idx]
    IN  IF player.placed_worker_this_turn = None
        THEN IF player.worker_in_hand # None
             THEN get_legal_place_actions(s, player) \o get_legal_raid_actions(s, player)
             ELSE << >>
        ELSE get_legal_pickup_actions(s, player)

\* GameEngine.get_legal_actions
\* GameEngine.get_legal_actions without the is_game_over test.
engine_get_legal_actions_ignoring_game_over(s) == get_legal_actions(s)

engine_get_legal_actions(s) == IF s.game_ended THEN << >> ELSE get_legal_actions(s)

(***************************************************************************)
(* The engine facade (engine.py).                                          *)
(***************************************************************************)
Init ==
    /\ \E seed \in 0 .. MaxSeed, tiles \in OfferingCatalogs :
          state = create_initial_state(seed, tiles)
    /\ action_history_len = 0
    /\ action_history_last = None
    /\ state_history_len = 1
    /\ state_history_last = state
    /\ raised = None
    /\ turns_ended = 0
    /\ replay = None

EndsTurn(a) == a.action_type \in {"pickup_worker", "raid"}

\* A rejection that has already recorded the action in the history.
rejected_after_recording(a, error) ==
    /\ raised' = error
    /\ action_history_len' = action_history_len + 1
    /\ action_history_last' = a.action_type
    /\ UNCHANGED <<state, state_history_len, state_history_last, turns_ended, replay>>

\* A call that raises: nothing of the engine changes.
rejected(a, error) ==
    /\ raised' = error
    /\ UNCHANGED <<state, action_history_len, action_history_last, state_history_len,
                   state_history_last, turns_ended, replay>>

\* An accepted call that checks the end of the game even when the game has
\* already ended.
accepted_checking_end_again(a) ==
    /\ \E executed \in execute(state, a) :
          /\ state' = check_end_conditions(executed)
          /\ state_history_last' = executed
    /\ action_history_len' = action_history_len + 1
    /\ action_history_last' = a.action_type
    /\ state_history_len' = state_history_len + 1
    /\ raised' = None
    /\ turns_ended' = IF EndsTurn(a) THEN turns_ended + 1 ELSE turns_ended
    /\ UNCHANGED replay

\* A call that passes validation: execute, append to both histories (the
\* state snapshot is taken before the end-of-game check), then check the end
\* of the game unless it ended before.
accepted(a) ==
    /\ \E executed \in execute(state, a) :
          /\ state' = IF ~ executed.game_ended THEN check_end_conditions(executed) ELSE executed
          /\ state_history_last' = executed
    /\ action_history_len' = action_history_len + 1
    /\ action_history_last' = a.action_type
    /\ state_history_len' = state_history_len + 1
    /\ raised' = None
    /\ turns_ended' = IF EndsTurn(a) THEN turns_ended + 1 ELSE turns_ended
    /\ UNCHANGED replay

\* GameEngine.take_action
take_action(a) ==
    LET verdict == is_legal(state, a)
    IN  IF verdict = "True" THEN accepted(a)
        ELSE IF verdict = "False" THEN rejected(a, "ValueError")
        ELSE rejected(a, verdict)

\* The arguments the callers are modelled to pass.
PlayerIdArgs == Players \cup {NoSuchPlayer}
BuildingIdArgs == BuildingIds \cup {UnknownBuilding}
CardIdArgs == CardIds \cup {UnknownCard}
DiscardCrewIdArgs == CardIds \cup {UnknownCard, None}
RaidIdArgs == RaidIds \cup {UnknownRaid}
SublocationIdArgs == {"a", UnknownSublocation}
CrewIdsArgs == { << >>, << "villager" >>, << UnknownCard >> }

\* The calls of one game are bounded.
WithinCalls == action_history_len < MaxCalls

PlaceWorker ==
    /\ WithinCalls
    /\ \E p \in PlayerIdArgs, b \in BuildingIdArgs : take_action(PlaceWorkerAction(p, b))

PickupWorker ==
    /\ WithinCalls
    /\ \E p \in PlayerIdArgs, b \in BuildingIdArgs : take_action(PickupWorkerAction(p, b))

HireCrew ==
    /\ WithinCalls
    /\ \E p \in PlayerIdArgs, c \in CardIdArgs, d \in DiscardCrewIdArgs :
          take_action(HireCrewAction(p, c, d))

PlayCardTownHall ==
    /\ WithinCalls
    /\ \E p \in PlayerIdArgs, c \in CardIdArgs : take_action(PlayCardTownHallAction(p, c))

Raid ==
    /\ WithinCalls
    /\ \E p \in PlayerIdArgs, l \in RaidIdArgs, sub \in SublocationIdArgs, crew \in CrewIdsArgs :
          take_action(RaidAction(p, l, sub, crew))

\* Any caller of the facade: every action class, for any player id.
Next == PlaceWorker \/ PickupWorker \/ HireCrew \/ PlayCardTownHall \/ Raid

Spec == Init /\ [][Next]_vars

\* GameEngine.play_game: while the game is not over and turn_count < max_turns,
\* one action out of the current legal list is taken.
PlayTurn ==
    /\ ~ state.game_ended
    /\ action_history_len < MaxTurns
    /\ \E i \in DOMAIN engine_get_legal_actions(state) :
          take_action(engine_get_legal_actions(state)[i])

NextDriven == PlayTurn

SpecDriven == Init /\ [][NextDriven]_vars

\* A game in which every call comes from the player whose turn it is: the
\* current player plays an action of the legal list, or hires crew with a
\* HireCrewAction that is_action_legal accepts (HireCrewAction is never in the
\* legal list; its caller passes it to take_action directly).
HiringPlayTurn ==
    /\ ~ state.game_ended
    /\ action_history_len < MaxHiringCalls
    /\ \E i \in DOMAIN engine_get_legal_actions(state) :
          take_action(engine_get_legal_actions(state)[i])

HiringHireCrew ==
    /\ action_history_len < MaxHiringCalls
    /\ \E c \in CardIds, d \in DiscardCrewIdArgs :
          /\ is_legal(state, HireCrewAction(state.current_player_idx, c, d)) = "True"
          /\ take_action(HireCrewAction(state.current_player_idx, c, d))

NextHiring == HiringPlayTurn \/ HiringHireCrew

SpecHiring == Init /\ [][NextHiring]_vars

\* The tests of RaidAction.is_legal other than the placement test, with the
\* plunder read from RaidState.plunder_remaining: what a caller that executes
\* a raid itself has to establish.
raid_requirements_met(s, a) ==
    /\ get_player(s, a.player_id) # {}
    /\ get_raid(a.location_id) # {}
    /\ LET player == TheOne(get_player(s, a.player_id))
           raid   == TheOne(get_raid(a.location_id))
       IN  /\ player.worker_in_hand # None
           /\ raid_allows_worker_color(raid, player.worker_in_hand)
           /\ Len(a.crew_ids) >= raid.requirements.min_crew
           /\ \A i \in DOMAIN a.crew_ids : InSeq(a.crew_ids[i], player.crew)
           /\ player.provisions >= raid.requirements.provisions
           /\ player.gold >= raid.requirements.gold
           /\ \E rs \in get_raid_state(s, a.location_id, a.sublocation_id) :
                  rs.plunder_remaining > 0

\* RaidAction.execute called on the engine's state for the current player
\* (execute is an operation of the Action protocol; take_action never reaches
\* it for a raid, is_legal never answering True).  The call raises.
execute_raid(a) ==
    /\ state' \in Raid_execute(state, a)
    /\ raised' = "AttributeError"
    /\ UNCHANGED <<action_history_len, action_history_last, state_history_len,
                   state_history_last, turns_ended, replay>>

RaidsOfCurrentPlayer ==
    { RaidAction(state.current_player_idx, l, sub, crew) :
        l \in RaidIds, sub \in SublocationIds, crew \in {<< "villager" >>, << "hero" >>} }

ExecutingPlayTurn ==
    /\ ~ state.game_ended
    /\ action_history_len < MaxExecuteCalls
    /\ \E i \in DOMAIN engine_get_legal_actions(state) :
          take_action(engine_get_legal_actions(state)[i])

ExecutingHireCrew ==
    /\ action_history_len < MaxExecuteCalls
    /\ \E c \in CardIds :
          /\ is_legal(state, HireCrewAction(state.current_player_idx, c, None)) = "True"
          /\ take_action(HireCrewAction(state.current_player_idx, c, None))

ExecuteRaid ==
    \E a \in RaidsOfCurrentPlayer :
        /\ raid_requirements_met(state, a)
        /\ execute_raid(a)

NextExecute == ExecutingPlayTurn \/ ExecutingHireCrew \/ ExecuteRaid

SpecExecute == Init /\ [][NextExecute]_vars

\* The town_hall_action values the effect resolution is called with.
TownHallEffects ==
    { [type |-> "gain_resource", resource |-> "provisions", amount |-> 1],
      [type |-> "opponents_lose_resource", resource |-> "silver", amount |-> 3],
      [type |-> "trade", give |-> [silver |-> 1, provisions |-> 1], receive |-> [gold |-> 1]],
      [type |-> "manipulate_offerings"],
      [type |-> "collect_from_opponents", options |-> << "silver", "gold" >>, amount |-> 1] }

\* The resolutions of one game are bounded by the resources they may pile up.
WithinResources ==
    \A p \in Players, r \in ResourceNames : state.players[p][r] <= MaxResource

\* The building whose action is to play a card for its Town Hall effect.
AtTownHall(player) ==
    \E building \in get_building(player.placed_worker_this_turn) :
        building.action.type = "play_card_town_hall"

\* RulesEngine.resolve_town_hall_effect called on the engine's state for the
\* player whose turn it is, while that player's worker stands on the Town
\* Hall (no action of actions.py calls it; its caller passes the state, the
\* player and the card).
ResolveTownHallEffect ==
    /\ ~ state.game_ended
    /\ AtTownHall(state.players[state.current_player_idx])
    /\ WithinResources
    /\ \E effect \in TownHallEffects :
          state' \in resolve_town_hall_effect(state, state.current_player_idx, effect)
    /\ raised' = None
    /\ UNCHANGED <<action_history_len, action_history_last, state_history_len,
                   state_history_last, turns_ended, replay>>

NextEffects == ExecutingPlayTurn \/ ExecutingHireCrew \/ ExecuteRaid \/ ResolveTownHallEffect

SpecEffects == Init /\ [][NextEffects]_vars

\* Two engines of one process, created one after the other with the same
\* names and seed (the second create_initial_state seeds the generator
\* again, so both start from the same state), then driven in step: each
\* action is passed to take_action of the first engine, then of the second.
InitReplay ==
    /\ \E seed \in 0 .. MaxSeed, tiles \in OfferingCatalogs :
          /\ state = create_initial_state(seed, tiles)
          /\ replay = [state |-> create_initial_state(seed, tiles),
                       random_state |-> random_after_setup(seed)]
    /\ action_history_len = 0
    /\ action_history_last = None
    /\ state_history_len = 1
    /\ state_history_last = state
    /\ raised = None
    /\ turns_ended = 0

\* take_action(a) of the first engine, which accepts a, then take_action(a)
\* of the second, which accepts or refuses it.
take_action_twice(a) ==
    LET first   == execute_at(state, a, replay.random_state)
        second  == execute_at(replay.state, a, first.random_state)
        ended(executed) == IF ~ executed.game_ended
                           THEN check_end_conditions(executed)
                           ELSE executed
    IN  /\ is_legal(state, a) = "True"
        /\ state' = ended(first.state)
        /\ state_history_last' = first.state
        /\ action_history_len' = action_history_len + 1
        /\ action_history_last' = a.action_type
        /\ state_history_len' = state_history_len + 1
        /\ raised' = None
        /\ turns_ended' = IF EndsTurn(a) THEN turns_ended + 1 ELSE turns_ended
        /\ replay' = IF is_legal(replay.state, a) = "True"
                      THEN [state |-> ended(second.state), random_state |-> second.random_state]
                      ELSE [replay EXCEPT !.random_state = first.random_state]

WithinReplayCalls == ~ state.game_ended /\ action_history_len < MaxReplayCalls

ReplayPlayTurn ==
    /\ WithinReplayCalls
    /\ \E i \in DOMAIN engine_get_legal_actions(state) :
          take_action_twice(engine_get_legal_actions(state)[i])

ReplayHireCrew ==
    /\ WithinReplayCalls
    /\ \E c \in CardIds, d \in CardIds \cup {None} :
          take_action_twice(HireCrewAction(state.current_player_idx, c, d))

ReplayPlayCardTownHall ==
    /\ WithinReplayCalls
    /\ \E c \in CardIds : take_action_twice(PlayCardTownHallAction(state.current_player_idx, c))

NextReplay == ReplayPlayTurn \/ ReplayHireCrew \/ ReplayPlayCardTownHall

SpecReplay == InitReplay /\ [][NextReplay]_vars

\* play_game without its turn cap (max_turns as large as the game needs).
\* The game can then go on for ever, and the counters that only grow are
\* followed up to MaxCounted: the round number, the resource counters and
\* the lengths of the histories.  No test of PlaceWorkerAction.is_legal,
\* PickupWorkerAction.is_legal or check_end_conditions reads any of them.
counted(n) == Min(n, MaxCounted)

counted_state(s) ==
    [s EXCEPT !.round_number = counted(@),
              !.players = [p \in Players |->
                              [s.players[p] EXCEPT !.silver = counted(@),
                                                   !.gold = counted(@),
                                                   !.provisions = counted(@),
                                                   !.iron = counted(@),
                                                   !.livestock = counted(@)]]]

\* take_action(a) for an action of the legal list, the counters followed up
\* to the bound.
take_action_counted(a) ==
    /\ is_legal(state, a) = "True"
    /\ \E executed \in execute(state, a) :
          /\ state' = counted_state(IF ~ executed.game_ended
                                    THEN check_end_conditions(executed)
                                    ELSE executed)
          /\ state_history_last' = counted_state(executed)
    /\ action_history_len' = counted(action_history_len + 1)
    /\ action_history_last' = a.action_type
    /\ state_history_len' = counted(state_history_len + 1)
    /\ raised' = None
    /\ turns_ended' = counted(IF EndsTurn(a) THEN turns_ended + 1 ELSE turns_ended)
    /\ UNCHANGED replay

\* One pass of the loop of play_game: while not is_game_over, an action of
\* the legal list is taken.
EndlessPlayTurn ==
    /\ ~ state.game_ended
    /\ \E i \in DOMAIN engine_get_legal_actions(state) :
          take_action_counted(engine_get_legal_actions(state)[i])

NextEndless == EndlessPlayTurn

\* The loop runs as long as its condition holds: the pass is taken whenever
\* it stays possible.
SpecEndless == Init /\ [][NextEndless]_vars /\ WF_vars(EndlessPlayTurn)

(***************************************************************************)
(* Properties.                                                             *)
(***************************************************************************)
CurrentPlayer == state.players[state.current_player_idx]

WorkersAt(building_id) ==
    Cardinality({i \in DOMAIN state.worker_placements :
                    state.worker_placements[i].building_id = building_id})

\* C1: in every state reached by successful take_action calls, no catalog
\* building holds more WorkerPlacements than its worker_slots.
SlotCapacityRespected ==
    \A i \in DOMAIN Buildings : WorkersAt(Buildings[i].id) <= Buildings[i].worker_slots

\* C1 witness: a worker has been placed on the Gate House next to the neutral
\* one, which fills its two slots, so that a further placement there is refused.
SlotCapacityReached ==
    /\ action_history_last = "place_worker"
    /\ WorkersAt("gate_house") = 2
    /\ \E p \in Players : state.players[p].worker_in_hand # None
                          /\ state.players[p].placed_worker_this_turn = None
                          /\ PlaceWorker_is_legal(state, PlaceWorkerAction(p, "gate_house")) = "False"

\* The Raid calls on raid locations that require provisions.
RaidsRequiringProvisions ==
    { RaidAction(p, l, sub, crew) :
        p \in PlayerIdArgs,
        l \in {id \in RaidIds : TheOne(get_raid(id)).requirements.provisions > 0},
        sub \in SublocationIdArgs, crew \in CrewIdsArgs }

\* C2: a take_action call that raises the illegal-action error (ValueError)
\* changes neither the game state nor action_history nor state_history, and a
\* Raid by a player with 0 provisions on a location that requires provisions
\* is always illegal.
IllegalActionLeavesEngineUnchanged ==
    /\ [][raised' = "ValueError" =>
             UNCHANGED <<state, action_history_len, action_history_last,
                         state_history_len, state_history_last>>]_vars
    /\ [](\A a \in RaidsRequiringProvisions :
             (a.player_id \in Players /\ state.players[a.player_id].provisions = 0)
                 => is_legal(state, a) = "False")

\* C2 witness: a call was rejected with ValueError in a state where a player
\* who passes every earlier test of RaidAction.is_legal has 0 provisions for a
\* raid on raid_001, which costs provisions: that Raid is illegal.
RaidWithoutProvisionsRejected ==
    /\ raised = "ValueError"
    /\ \E p \in Players :
          /\ state.players[p].worker_in_hand = "black"
          /\ state.players[p].placed_worker_this_turn # None
          /\ InSeq("villager", state.players[p].crew)
          /\ state.players[p].provisions = 0
          /\ TheOne(get_raid("raid_001")).requirements.provisions > 0
          /\ is_legal(state, RaidAction(p, "raid_001", "a", << "villager" >>)) = "False"

\* C3 as claimed: while the game has not ended, the current player either
\* holds a worker or has a placed worker awaiting pickup, never both and never
\* neither.
ExactlyOnePendingWorker ==
    ~ state.game_ended =>
        (CurrentPlayer.worker_in_hand # None) # (CurrentPlayer.placed_worker_this_turn # None)

\* The total plunder left on the sublocations of the catalog's fortress-type
\* raid locations.
FortressTypePlunder ==
    SumInts([i \in DOMAIN state.raid_states |->
                IF TheOne(get_raid(state.raid_states[i].location_id)).type = "fortress"
                THEN state.raid_states[i].plunder_remaining
                ELSE 0])

MeetsRaidRequirements(i, j) ==
    /\ raid_allows_worker_color(Raids[i], CurrentPlayer.worker_in_hand)
    /\ Len(CurrentPlayer.crew) >= Raids[i].requirements.min_crew
    /\ CurrentPlayer.provisions >= Raids[i].requirements.provisions
    /\ CurrentPlayer.gold >= Raids[i].requirements.gold
    /\ \E rs \in get_raid_state(state, Raids[i].id, Raids[i].sublocations[j].id) :
          rs.plunder_remaining > 0

\* C5 as claimed: when the current player holds a worker and has not placed
\* one this turn, the legal list holds a Raid for every raid sublocation whose
\* requirements the player meets.
FeasibleRaidsAreOffered ==
    (/\ ~ state.game_ended
     /\ CurrentPlayer.worker_in_hand # None
     /\ CurrentPlayer.placed_worker_this_turn = None)
    => \A i \in DOMAIN Raids : \A j \in DOMAIN Raids[i].sublocations :
          MeetsRaidRequirements(i, j) =>
              \E k \in DOMAIN engine_get_legal_actions(state) :
                  /\ engine_get_legal_actions(state)[k].action_type = "raid"
                  /\ engine_get_legal_actions(state)[k].location_id = Raids[i].id
                  /\ engine_get_legal_actions(state)[k].sublocation_id = Raids[i].sublocations[j].id

CardsInPlay ==
    Len(state.townsfolk_deck) + Len(state.townsfolk_discard)
    + SumInts([i \in 1 .. NumPlayers |-> Len(state.players[i - 1].hand)])
    + SumInts([i \in 1 .. NumPlayers |-> Len(state.players[i - 1].crew)])

\* C6: the number of townsfolk cards over deck, discard pile, hands and crews
\* is the size of the full deck in every reachable state.
CardCountConserved == CardsInPlay = Len(create_deck)

\* C6 witness: deck and discard pile are both empty while no crew was hired
\* and no hand is over the limit: a card discarded by the hand limit or played
\* at the town hall has been reshuffled into the deck and drawn again.
ReshuffledDiscardDrawn ==
    /\ state.townsfolk_deck = << >>
    /\ state.townsfolk_discard = << >>
    /\ \A p \in Players : state.players[p].crew = << >> /\ Len(state.players[p].hand) <= HandLimit

\* C7 as claimed: no player's crew ever holds more than 5 cards.
CrewAtMostFive == \A p \in Players : Len(state.players[p].crew) <= CrewLimit

\* C8 as claimed, in a game that has not ended: right after a successful
\* turn-ending action every player's hand holds at most 8 cards.
AllHandsWithinLimitAfterTurnEnd ==
    (~ state.game_ended /\ action_history_last \in {"pickup_worker", "raid"}) =>
        \A p \in Players : Len(state.players[p].hand) <= HandLimit

\* C9: in a game driven by the legal list, a new round starts exactly on the
\* turn-ending action after which every player has acted; the players who have
\* acted in the round are those before the current player in player order, and
\* round_number is 1 plus the number of completed rounds.
RoundRolloverStep ==
    /\ (state'.round_number # state.round_number) <=>
           (/\ turns_ended' = turns_ended + 1
            /\ \A p \in Players \ {state.current_player_idx} : state.players[p].has_acted)
    /\ state'.round_number \in {state.round_number, state.round_number + 1}
    /\ turns_ended' # turns_ended =>
           state'.current_player_idx = (state.current_player_idx + 1) % NumPlayers

RoundsInPlayerOrder ==
    /\ [](/\ \A p \in Players : state.players[p].has_acted <=> p < state.current_player_idx
          /\ state.current_player_idx = turns_ended % NumPlayers
          /\ state.round_number = 1 + (turns_ended \div NumPlayers))
    /\ [][RoundRolloverStep]_vars

\* C9 witness: two rounds are complete and the third has begun.
ThirdRoundBegun ==
    /\ state.round_number = 3
    /\ turns_ended = 2 * NumPlayers
    /\ state.current_player_idx = state.first_player_idx

\* The base plunder of the sublocation a RaidState stands for.
BasePlunder(rs) ==
    LET raid == TheOne(get_raid(rs.location_id))
    IN  raid.sublocations[CHOOSE j \in DOMAIN raid.sublocations :
                              raid.sublocations[j].id = rs.sublocation_id].plunder

RaidEmptiesSublocation ==
    [][\A a \in RaidsOfCurrentPlayer :
          (raid_requirements_met(state, a) /\ execute_raid(a)) =>
              \A rs \in get_raid_state(state', a.location_id, a.sublocation_id) :
                  rs.plunder_remaining = 0]_vars

\* C12 as claimed: for every player, crew selection and raid location, the
\* crew strength RaidAction.execute adds the dice to is the strength
\* calculate_raid_strength computes.
RaidStrengthIsDynamicStrength ==
    \A p \in Players : \A l \in RaidIds : \A crew_ids \in {<< "villager" >>, << "hero" >>,
                                                        << "hero", "villager" >>} :
        raid_total_strength(state.players[p], crew_ids)
            = calculate_raid_strength(state, state.players[p], crew_ids, l)

\* A step in which take_action accepted an action of the given type.
Accepted(action_type) ==
    /\ action_history_len' = action_history_len + 1
    /\ action_history_last' = action_type

\* The town-hall effect of card c shows on player p across the step.
TownHallEffectApplied(p, c) ==
    LET effect == CardOf(c).town_hall_action
    IN  /\ effect.type = "gain_resource" =>
               state'.players[p][effect.resource] = state.players[p][effect.resource] + effect.amount
        /\ effect.type = "draw_cards" =>
               Len(state'.players[p].hand) >= Len(state.players[p].hand)

\* C13 as claimed: an accepted PlayCardTownHall moves the card from the
\* player's hand (or crew) to the discard pile and applies the card's
\* town-hall effect to that player.
TownHallCardTakesEffect ==
    [][Accepted("play_card_town_hall") =>
          \E p \in Players, c \in CardIds :
              /\ \/ state'.players[p].hand = RemoveFirst(state.players[p].hand, c)
                    /\ InSeq(c, state.players[p].hand)
                 \/ state'.players[p].crew = RemoveFirst(state.players[p].crew, c)
                    /\ InSeq(c, state.players[p].crew)
              /\ state'.townsfolk_discard = Append(state.townsfolk_discard, c)
              /\ TownHallEffectApplied(p, c)]_vars

\* The player with the highest final VP, the earliest in player order among
\* those who tie for it.
HighestFinalVpPlayer(s) ==
    CHOOSE p \in Players :
        \A q \in Players :
            \/ get_final_vp(s.players[p]) > get_final_vp(s.players[q])
            \/ get_final_vp(s.players[p]) = get_final_vp(s.players[q]) /\ p <= q

\* C14: in the step that ends the game, winner_id becomes the id of the
\* player with the highest final VP, the earliest in player order on a tie.
WinnerHasHighestFinalVp ==
    [][(~ state.game_ended /\ state'.game_ended) =>
          state'.winner_id = {state'.players[HighestFinalVpPlayer(state')].player_id}]_vars

\* C14 witness: the game has just ended and the winner is the second player,
\* whose final VP is above the first player's.
SecondPlayerWinsOnVp ==
    /\ state.game_ended
    /\ action_history_len = 1
    /\ state.winner_id = {1}
    /\ get_final_vp(state.players[1]) > get_final_vp(state.players[0])

\* C15: once the game has ended it stays ended, and the facade's legal list
\* is empty in every state from then on.
NoLegalActionsOnceEnded ==
    /\ [](state.game_ended => engine_get_legal_actions(state) = << >>)
    /\ [][state.game_ended => state'.game_ended]_vars

\* C15 witness: a state after the one in which the game ended, in which the
\* rules engine itself would still list actions for the current player.
EndedGameStillHasRulesActions ==
    /\ state.game_ended
    /\ action_history_len >= 2
    /\ get_legal_actions(state) # << >>

\* C16: winner_id is none exactly while the game has not ended, and once it
\* is set it never changes.
WinnerSetExactlyWhenEnded ==
    /\ [](state.winner_id = {} <=> ~ state.game_ended)
    /\ [](state.winner_id \subseteq Players)
    /\ [][state.winner_id # {} => state'.winner_id = state.winner_id]_vars

\* C16 witness: the winner fixed when the game ended is still the first
\* player after a later accepted action has put the second player's final VP
\* above the first player's.
WinnerKeptAfterLaterAction ==
    /\ state.game_ended
    /\ action_history_len >= 2
    /\ state.winner_id = {0}
    /\ get_final_vp(state.players[1]) > get_final_vp(state.players[0])

\* C17: applied to any reachable state, draw_card returns no card exactly
\* when deck and discard pile are both empty; with an empty deck and a
\* non-empty discard pile it leaves the discard pile empty and the deck with
\* the former discard cards less the returned one.
DrawCardReshuffles ==
    /\ draw_card(state) # {}
    /\ \A o \in draw_card(state) :
          /\ o.card = << >> <=> (state.townsfolk_deck = << >> /\ state.townsfolk_discard = << >>)
          /\ (state.townsfolk_deck = << >> /\ state.townsfolk_discard # << >>) =>
                 /\ o.state.townsfolk_discard = << >>
                 /\ \A c \in CardIds :
                        CountIn(o.state.townsfolk_deck, c) + CountIn(o.card, c)
                            = CountIn(state.townsfolk_discard, c)

\* C17 witness: the deck is empty and the discard pile holds several cards,
\* so the next draw reshuffles and returns one of them.
DeckEmptyDiscardNot ==
    /\ state.townsfolk_deck = << >>
    /\ Len(state.townsfolk_discard) >= 2
    /\ \E o \in draw_card(state) : o.card # << >> /\ Len(o.state.townsfolk_deck) >= 1

\* The index of the earliest placement at a building.
EarliestWorkerAt(building_id) ==
    CHOOSE i \in DOMAIN state.worker_placements :
        /\ state.worker_placements[i].building_id = building_id
        /\ \A j \in 1 .. (i - 1) : state.worker_placements[j].building_id # building_id

\* C18: a PickupWorker is legal exactly when the player holds no worker, has
\* placed this turn, elsewhere, has not used the building this turn and some
\* worker of any owner stands on it; executing it removes the earliest
\* placement there, hands its colour to the player, and leaves the resources,
\* hand, crew and VP of every other player unchanged.
PickupTakesAnyWorker ==
    \A p \in Players, b \in BuildingIds :
        LET a      == PickupWorkerAction(p, b)
            player == state.players[p]
        IN  /\ is_legal(state, a) = "True" <=>
                  /\ player.worker_in_hand = None
                  /\ player.placed_worker_this_turn \notin {None, b}
                  /\ ~ InSeq(b, player.buildings_used_this_turn)
                  /\ \E i \in DOMAIN state.worker_placements :
                         state.worker_placements[i].building_id = b
            /\ is_legal(state, a) = "True" =>
                  \A t \in execute(state, a) :
                      LET i == EarliestWorkerAt(b)
                      IN  /\ t.worker_placements =
                                 SubSeq(state.worker_placements, 1, i - 1)
                                 \o SubSeq(state.worker_placements, i + 1,
                                           Len(state.worker_placements))
                          /\ t.players[p].worker_in_hand = state.worker_placements[i].worker_color
                          /\ \A q \in Players \ {p} :
                                 /\ \A r \in ResourceNames :
                                        t.players[q][r] = state.players[q][r]
                                 /\ t.players[q].hand = state.players[q].hand
                                 /\ t.players[q].crew = state.players[q].crew
                                 /\ t.players[q].vp = state.players[q].vp

\* C18 witness: a player may pick up from a building whose earliest worker
\* was placed by the other player.
OpponentWorkerCanBePickedUp ==
    \E p \in Players, b \in BuildingIds :
        /\ is_legal(state, PickupWorkerAction(p, b)) = "True"
        /\ state.worker_placements[EarliestWorkerAt(b)].player_id \in Players \ {p}

\* C19: current_player_idx changes only in an accepted PickupWorker or Raid;
\* an accepted PlaceWorker, HireCrew or PlayCardTownHall leaves it, the round
\* number and every has_acted flag unchanged; an accepted PlaceWorker appends
\* one placement of the player's held colour, clears the held worker and
\* records the building as this turn's placement.
OnlyTurnEndingActionsAdvance ==
    [][/\ state'.current_player_idx # state.current_player_idx =>
              (Accepted("pickup_worker") \/ Accepted("raid"))
       /\ (Accepted("place_worker") \/ Accepted("hire_crew") \/ Accepted("play_card_town_hall")) =>
              /\ state'.current_player_idx = state.current_player_idx
              /\ state'.round_number = state.round_number
              /\ \A p \in Players : state'.players[p].has_acted = state.players[p].has_acted
       /\ Accepted("place_worker") =>
              /\ Len(state'.worker_placements) = Len(state.worker_placements) + 1
              /\ SubSeq(state'.worker_placements, 1, Len(state.worker_placements))
                     = state.worker_placements
              /\ LET placement == state'.worker_placements[Len(state'.worker_placements)]
                 IN  \E p \in Players :
                         /\ placement.player_id = p
                         /\ placement.worker_color = state.players[p].worker_in_hand
                         /\ state'.players[p].worker_in_hand = None
                         /\ state'.players[p].placed_worker_this_turn = placement.building_id]_vars

\* C19 witness: the current player has just placed a worker and it is still
\* that player's turn.
PlacedAndStillOnTurn ==
    /\ action_history_last = "place_worker"
    /\ CurrentPlayer.worker_in_hand = None
    /\ CurrentPlayer.placed_worker_this_turn # None
    /\ ~ CurrentPlayer.has_acted
    /\ state.worker_placements[Len(state.worker_placements)].player_id = state.current_player_idx

\* C20 as claimed: in a game that has not ended, a current player with no
\* placement recorded for this turn holds a worker in hand.
TurnStartsWithWorkerInHand ==
    (~ state.game_ended /\ CurrentPlayer.placed_worker_this_turn = None)
        => CurrentPlayer.worker_in_hand # None

\* C21: every action of the legal list belongs to the current player and
\* passes is_legal in the same state; once the current player has placed a
\* worker this turn the list is exactly the PickupWorker actions, one per
\* catalog building, that pass is_legal.
LegalListIsLegal ==
    LET legal == get_legal_actions(state)
        cur   == state.current_player_idx
    IN  /\ \A i \in DOMAIN legal :
              /\ legal[i].player_id = cur
              /\ is_legal(state, legal[i]) = "True"
        /\ CurrentPlayer.placed_worker_this_turn # None =>
              /\ \A i \in DOMAIN legal :
                     /\ legal[i].action_type = "pickup_worker"
                     /\ legal[i].building_id \in BuildingIds
                     /\ \A j \in DOMAIN legal : legal[j] = legal[i] => j = i
              /\ \A b \in BuildingIds :
                     is_legal(state, PickupWorkerAction(cur, b)) = "True"
                         => InSeq(PickupWorkerAction(cur, b), legal)

\* C21 witness: the current player has placed a worker and the legal list
\* holds several pickups while other buildings are left out of it.
SeveralPickupsOffered ==
    /\ CurrentPlayer.placed_worker_this_turn # None
    /\ Len(get_legal_actions(state)) >= 2
    /\ Len(get_legal_actions(state)) < Len(Buildings)

\* C23: the five resource counters of every player are at least 0 in every
\* reachable state, whether spent by HireCrew or a raid or taken by a forced
\* loss.
ResourcesNeverNegative ==
    \A p \in Players, r \in ResourceNames : state.players[p][r] >= 0

\* C23 witness: a player who has hired nobody is left without silver by the
\* forced losses, while another player has paid for crew.
ForcedLossReachedZero ==
    \E p \in Players, q \in Players :
        /\ state.players[p].silver = 0
        /\ state.players[p].crew = << >>
        /\ state.players[q].crew # << >>

\* The tiles of the stack and the visible slots, as one list.
OfferingTiles(s) == s.offering_stack \o s.visible_offerings

VisibleOfferingsFilled(s) ==
    /\ Len(s.visible_offerings) <= 3
    /\ Len(s.visible_offerings) < 3 => s.offering_stack = << >>

\* C27: at most three offerings are visible, fewer than three only when the
\* stack is empty; the manipulate-offerings effect keeps this and keeps the
\* multiset of tiles across stack and visible slots.
VisibleOfferingsKeptFilled ==
    /\ VisibleOfferingsFilled(state)
    /\ \A p \in Players :
          \A t \in resolve_town_hall_effect(state, p, [type |-> "manipulate_offerings"]) :
              /\ VisibleOfferingsFilled(t)
              /\ \A i \in DOMAIN OfferingTiles(state) :
                     CountIn(OfferingTiles(t), OfferingTiles(state)[i])
                         = CountIn(OfferingTiles(state), OfferingTiles(state)[i])
              /\ Len(OfferingTiles(t)) = Len(OfferingTiles(state))

\* C27 witness: the offerings have been manipulated: the stack is not empty
\* and is not the stack any new game starts with.
OfferingsManipulated ==
    /\ state.offering_stack # << >>
    /\ \A seed \in 0 .. MaxSeed, tiles \in OfferingCatalogs :
          state.offering_stack # create_initial_state(seed, tiles).offering_stack

TradeEffects == {effect \in TownHallEffects : effect.type = "trade"}

\* C29: a trade effect resolved for a player who holds every give amount
\* subtracts each give amount and adds each receive amount; resolved for a
\* player who lacks one of them it changes no resource counter of any player.
TradeIsAtomic ==
    \A p \in Players, effect \in TradeEffects :
        \A t \in resolve_town_hall_effect(state, p, effect) :
            IF \A r \in DOMAIN effect.give : state.players[p][r] >= effect.give[r]
            THEN /\ \A r \in ResourceNames :
                       t.players[p][r] = state.players[p][r] - AmountOf(effect.give, r)
                                             + AmountOf(effect.receive, r)
                 /\ \A q \in Players \ {p}, r \in ResourceNames :
                       t.players[q][r] = state.players[q][r]
            ELSE \A q \in Players, r \in ResourceNames :
                     t.players[q][r] = state.players[q][r]

\* C29 witness: a trade has been carried out (gold enters the game through a
\* trade only) and the player now lacks one of the give amounts.
TradeCarriedOut ==
    \E p \in Players, effect \in TradeEffects :
        /\ state.players[p].gold >= 1
        /\ \E r \in DOMAIN effect.give : state.players[p][r] < effect.give[r]
        /\ \E r \in DOMAIN effect.give : state.players[p][r] >= effect.give[r]

\* The tier tables get_vp_for_strength is checked on: those of the catalog
\* and the table (30 -> 10), (20 -> 5), (0 -> 0); each lists its tiers from
\* the highest threshold down, as the catalog data does.
TierTables ==
    {Raids[i].vp_tiers : i \in DOMAIN Raids}
    \cup { << [min_strength |-> 30, vp |-> 10], [min_strength |-> 20, vp |-> 5],
              [min_strength |-> 0, vp |-> 0] >> }

\* The VP of the tier with the greatest threshold the strength reaches, 0
\* when it reaches none.
VpOfGreatestThreshold(tiers, strength) ==
    LET reached == {i \in DOMAIN tiers : tiers[i].min_strength <= strength}
    IN  IF reached = {}
        THEN 0
        ELSE tiers[CHOOSE i \in reached :
                       \A j \in reached : tiers[j].min_strength <= tiers[i].min_strength].vp

\* The strengths the crews of the players raid with, for every dice total of
\* the catalog's raids.
CrewStrengths ==
    { raid_total_strength(state.players[p], state.players[p].crew) + dice_total :
        p \in Players,
        dice_total \in UNION {DiceTotals(Raids[i].dice_added) : i \in DOMAIN Raids} }

\* C24: for every strength, get_vp_for_strength awards the VP of the tier
\* with the greatest threshold not above the strength, and 0 below every
\* threshold; strength 25 on (30 -> 10), (20 -> 5), (0 -> 0) awards 5.
RaidAwardsGreatestReachedTier ==
    /\ \A tiers \in TierTables, strength \in (0 .. MaxStrength) \cup CrewStrengths :
          get_vp_for_strength([vp_tiers |-> tiers], strength)
              = VpOfGreatestThreshold(tiers, strength)
    /\ \E tiers \in TierTables :
          get_vp_for_strength([vp_tiers |-> tiers], 25) = 5

\* C24 witness: a raid of strength 4 or 5 has been executed on the harbour,
\* whose table awards 2 VP for it (3 VP from strength 6, 1 VP from strength 3).
RaidAwardedMiddleTier ==
    /\ raised = "AttributeError"
    /\ \E p \in Players :
          /\ state.players[p].vp = 2
          /\ get_vp_for_strength(TheOne(get_raid("raid_001")), 5) = state.players[p].vp
          /\ get_vp_for_strength(TheOne(get_raid("raid_001")), 2) = 0

\* The engine holds the state create_initial_state built: no call has been
\* accepted yet.  The deck has the five cards per player the deal takes.
NewGame == state_history_len = 1 /\ Len(create_deck) >= InitialDeal * NumPlayers

\* C25: the state create_initial_state builds from a deck of at least five
\* cards per player gives every player 2 silver,
\* nothing of the other resources, a black worker and 3 cards; the deck is
\* the full deck less 3 cards per player, its bottom 2 cards per player being
\* the cards the players discarded, in the order they discarded them; 3
\* offerings are visible; one neutral black worker stands on each of Gate
\* House, Town Hall and Treasury; it is round 1, player 0's turn, and the
\* game has not ended.
InitialStateAsDescribed ==
    NewGame =>
        /\ \A p \in Players :
              /\ state.players[p].silver = 2
              /\ \A r \in {"gold", "provisions", "iron", "livestock", "armour", "valkyrie", "vp"} :
                     state.players[p][r] = 0
              /\ state.players[p].worker_in_hand = "black"
              /\ Len(state.players[p].hand) = 3
        /\ \E seed \in 0 .. MaxSeed :
              LET full == seeded_shuffle(create_deck, seed)
                  L    == Len(full)
              IN  /\ Len(state.townsfolk_deck) = L - 3 * NumPlayers
                  /\ \A p \in Players :
                         /\ state.players[p].hand
                                = << full[L - 5 * p], full[L - 5 * p - 1], full[L - 5 * p - 2] >>
                         /\ state.townsfolk_deck[2 * p + 1] = full[L - 5 * p - 4]
                         /\ state.townsfolk_deck[2 * p + 2] = full[L - 5 * p - 3]
                  /\ SubSeq(state.townsfolk_deck, 2 * NumPlayers + 1, Len(state.townsfolk_deck))
                         = SubSeq(full, 1, L - 5 * NumPlayers)
        /\ state.townsfolk_discard = << >>
        /\ Len(state.visible_offerings) = 3
        /\ Len(state.worker_placements) = 3
        /\ \A b \in {"gate_house", "town_hall", "treasury"} :
              \E i \in DOMAIN state.worker_placements :
                  state.worker_placements[i]
                      = [building_id |-> b, worker_color |-> "black", player_id |-> 0 - 1]
        /\ state.round_number = 1
        /\ state.current_player_idx = 0
        /\ ~ state.game_ended

\* C25 witness: a new game whose shuffle dealt the hero to the last player
\* and left one offering on the stack; a call has been made and refused.
NewGameDealt ==
    /\ NewGame
    /\ raised = "ValueError"
    /\ state.players[NumPlayers - 1].hand[1] = "hero"
    /\ Len(state.offering_stack) = 1

\* The actions that name a building, raid location, sublocation or card that
\* is in no catalog (and so among no player's cards), for any player id.
ActionsNamingUnknownIds ==
    UNION { { PlaceWorkerAction(p, UnknownBuilding), PickupWorkerAction(p, UnknownBuilding),
              PlayCardTownHallAction(p, UnknownCard) }
            \cup { HireCrewAction(p, UnknownCard, d) : d \in DiscardCrewIdArgs }
            \cup { HireCrewAction(p, c, UnknownCard) : c \in CardIdArgs }
            \cup { RaidAction(p, UnknownRaid, sub, crew) :
                       sub \in SublocationIdArgs, crew \in CrewIdsArgs }
            \cup { RaidAction(p, l, UnknownSublocation, crew) :
                       l \in RaidIdArgs, crew \in CrewIdsArgs }
            \cup { RaidAction(p, l, sub, << UnknownCard >>) :
                       l \in RaidIdArgs, sub \in SublocationIdArgs }
            : p \in PlayerIdArgs }

\* C26 as claimed: in every reachable state is_legal answers false for every
\* action that names an unknown building, raid location, sublocation or card.
UnknownIdsAreIllegal ==
    \A a \in ActionsNamingUnknownIds : is_legal(state, a) = "False"

HeroesInCrew(player) ==
    Cardinality({i \in DOMAIN player.crew : CardOf(player.crew[i]).is_hero})

\* C28: no crew ever holds more than one hero, and no HireCrew of a hero is
\* legal for a player whose crew holds a hero.
AtMostOneHeroInCrew ==
    \A p \in Players :
        /\ HeroesInCrew(state.players[p]) <= 1
        /\ HeroesInCrew(state.players[p]) = 1 =>
              \A c \in {x \in CardIds : CardOf(x).is_hero}, d \in DiscardCrewIdArgs :
                  is_legal(state, HireCrewAction(p, c, d)) = "False"

\* C28 witness: a player with a hero in the crew holds a second hero in hand
\* and the silver to hire it, and a hire has just been refused.
SecondHeroAffordable ==
    \E p \in Players :
        /\ HeroesInCrew(state.players[p]) = 1
        /\ \E i \in DOMAIN state.players[p].hand :
              /\ CardOf(state.players[p].hand[i]).is_hero
              /\ state.players[p].silver >= CardOf(state.players[p].hand[i]).cost
        /\ raised = "ValueError"
        /\ action_history_last = "hire_crew"

\* C30 as claimed: no step changes the held worker, the resources, the hand,
\* the crew or the VP of a player whose turn it is not, and no step advances
\* the turn while the player whose turn it is has not changed: only actions
\* of the current player are accepted.
OnlyCurrentPlayerActs ==
    [][/\ \A p \in Players \ {state.current_player_idx} :
             /\ state'.players[p].worker_in_hand = state.players[p].worker_in_hand
             /\ state'.players[p].hand = state.players[p].hand
             /\ state'.players[p].crew = state.players[p].crew
             /\ state'.players[p].vp = state.players[p].vp
             /\ \A r \in ResourceNames : state'.players[p][r] = state.players[p][r]
       /\ state'.current_player_idx # state.current_player_idx =>
             state'.players[state.current_player_idx].has_acted
             \/ state'.round_number > state.round_number]_vars

\* C22 as claimed: two games created with the same names and seed and given
\* the same actions are in the same state after every step.
ReplayInSameState == replay.state = state

\* C31 as claimed: once the game has ended every take_action call is
\* rejected and the game state no longer changes.
EndedGameIsFrozen ==
    [][state.game_ended => (state' = state /\ raised' # None)]_vars

\* C32: in a game played from the legal list, while the game has not ended
\* the legal list is not empty: a current player holding a worker has a
\* PlaceWorker action, and one whose worker is placed has a PickupWorker
\* action.
NoDeadlock ==
    ~ state.game_ended =>
        /\ engine_get_legal_actions(state) # << >>
        /\ CurrentPlayer.placed_worker_this_turn = None =>
               \E i \in DOMAIN engine_get_legal_actions(state) :
                   engine_get_legal_actions(state)[i].action_type = "place_worker"
        /\ CurrentPlayer.placed_worker_this_turn # None =>
               \A i \in DOMAIN engine_get_legal_actions(state) :
                   engine_get_legal_actions(state)[i].action_type = "pickup_worker"

\* C32 witness: in the second round of a game still running, the current
\* player has placed a worker and has a building to pick up from.
PickupOfferedInSecondRound ==
    /\ ~ state.game_ended
    /\ state.round_number >= 2
    /\ turns_ended >= 3
    /\ CurrentPlayer.placed_worker_this_turn # None
    /\ engine_get_legal_actions(state) # << >>

\* C33 as claimed: every game played from the legal list eventually reaches
\* a state in which the game has ended.
GameEventuallyEnds == <>(state.game_ended)

WorkerTokens(s) ==
    Len(s.worker_placements)
    + Cardinality({p \in Players : s.players[p].worker_in_hand # None})
    + Cardinality({i \in DOMAIN s.raid_states : s.raid_states[i].worker_present # None})

\* C35: the number of worker tokens (on buildings, held by players, on raid
\* sublocations) is in every reachable state the number of the initial
\* state, and no step changes it: an accepted action only moves a token.
WorkerTokensConserved ==
    /\ [](\A tiles \in OfferingCatalogs :
              WorkerTokens(state) = WorkerTokens(create_initial_state(0, tiles)))
    /\ [][WorkerTokens(state') = WorkerTokens(state)]_vars

\* C35 witness: a player has placed the held worker and picked up another
\* one: the board holds a worker a player placed, and that player holds a
\* worker again.
WorkerMovedThroughBoard ==
    /\ action_history_last = "pickup_worker"
    /\ raised = None
    /\ \E i \in DOMAIN state.worker_placements :
           /\ state.worker_placements[i].player_id \in Players
           /\ state.players[state.worker_placements[i].player_id].worker_in_hand # None

\* The strength of the crew cards a raid names: one card per named id.
NamedCrewStrength(crew_ids) ==
    SumInts([i \in DOMAIN crew_ids |-> CardOf(crew_ids[i]).strength])

\* C36 as claimed: whenever the current player meets the requirements of a
\* raid, the player's crew has at least min_crew cards and the crew strength
\* RaidAction.execute counts is the sum over exactly the cards named in
\* crew_ids, one card per named id.
RaidCountsNamedCrewOnly ==
    \A a \in RaidsOfCurrentPlayer :
        raid_requirements_met(state, a) =>
            /\ Len(CurrentPlayer.crew) >= TheOne(get_raid(a.location_id)).requirements.min_crew
            /\ raid_total_strength(CurrentPlayer, a.crew_ids) = NamedCrewStrength(a.crew_ids)

\* C37 as claimed: state_history has exactly one more entry than
\* action_history, and after every successful take_action the last entry of
\* state_history equals the current state, game_ended and winner_id included.
HistoryMirrorsGame ==
    /\ state_history_len = action_history_len + 1
    /\ (action_history_len > 0 /\ raised = None) => state_history_last = state

\* C38: within one turn a player never uses the same building twice: an
\* accepted PlaceWorker leaves the building placed at as the only building
\* used this turn, and an accepted PickupWorker takes a worker from another
\* building and leaves the player's buildings_used_this_turn with exactly
\* those two distinct buildings, the one placed at first.
NoBuildingUsedTwiceInATurn ==
    [][LET p == state.current_player_idx
           used == state'.players[p].buildings_used_this_turn
       IN  /\ Accepted("place_worker") =>
                  used = << state'.players[p].placed_worker_this_turn >>
           /\ Accepted("pickup_worker") =>
                  /\ Len(used) = 2
                  /\ used[1] = state.players[p].placed_worker_this_turn
                  /\ used[2] # used[1]
                  /\ Len(get_worker_at_building(state', used[2]))
                         = Len(get_worker_at_building(state, used[2])) - 1
                  /\ Len(get_worker_at_building(state', used[1]))
                         = Len(get_worker_at_building(state, used[1]))]_vars

\* C38 witness: a player has ended a turn by picking up a worker at the Gate
\* House, a building with two slots, after placing on another building.
TurnUsedTwoBuildings ==
    /\ action_history_last = "pickup_worker"
    /\ \E p \in Players \ {state.current_player_idx} :
           /\ state.players[p].has_acted
           /\ Len(state.players[p].buildings_used_this_turn) = 2
           /\ state.players[p].buildings_used_this_turn[2] = "gate_house"
           /\ state.players[p].buildings_used_this_turn[1] # "gate_house"

\* What all players together hold of a resource.
TotalHeld(s, r) == SumInts([i \in 1 .. NumPlayers |-> s.players[i - 1][r]])

OpponentEffects ==
    {effect \in TownHallEffects :
        effect.type \in {"opponents_lose_resource", "collect_from_opponents"}}

\* C39: resolved in any reachable state for any player, the
\* opponents-lose-resource and collect-from-opponents effects leave no
\* counter below 0; opponents-lose takes min(amount, holdings) of the
\* resource from every other player and leaves the playing player as it was;
\* collect-from-opponents takes the amount of one of the options only from
\* opponents holding it, and what all players together hold of each resource
\* is unchanged.
OpponentEffectsFlooredAndConserving ==
    \A pid \in Players, effect \in OpponentEffects :
        \A t \in resolve_town_hall_effect(state, pid, effect) :
            /\ \A q \in Players, r \in ResourceNames : t.players[q][r] >= 0
            /\ effect.type = "opponents_lose_resource" =>
                   /\ t.players[pid] = state.players[pid]
                   /\ \A q \in Players \ {pid} :
                          t.players[q] =
                              [state.players[q] EXCEPT
                                  ![effect.resource] = @ - Min(effect.amount, @)]
            /\ effect.type = "collect_from_opponents" =>
                   /\ \A r \in ResourceNames : TotalHeld(t, r) = TotalHeld(state, r)
                   /\ \A q \in Players \ {pid} :
                          \/ t.players[q] = state.players[q]
                          \/ \E k \in DOMAIN effect.options :
                                 /\ state.players[q][effect.options[k]] >= effect.amount
                                 /\ t.players[q] =
                                        [state.players[q] EXCEPT
                                            ![effect.options[k]] = @ - effect.amount]

\* C39 witness: the second player, standing on the Town Hall in the first
\* round, has collected one silver from the first player, who had gained
\* nothing but provisions: 3 silver against 1, and no gold to give.
SilverCollectedFromOpponent ==
    /\ AtTownHall(CurrentPlayer)
    /\ state.current_player_idx = 1
    /\ action_history_len = 3
    /\ state.players[1].silver = 3
    /\ state.players[0].silver = 1
    /\ state.players[0].gold = 0
    /\ state.players[0].provisions >= 1

====
